---- MODULE Spec2Model ----
(***************************************************************************)
(* Model of the multi-agent pipeline orchestrator                          *)
(* (src/src/agents/pipeline_orchestrator.py) together with the event       *)
(* sequences its Build, Analyze, Fix and Test agents publish through the   *)
(* progress callback, as seen by one subscriber of the pipeline's topic    *)
(* that is connected from pipeline_start on and stays connected.           *)
(*                                                                         *)
(* One pipeline is followed from start_pipeline to its cleanup.  An        *)
(* action is one piece of the coroutine between two points where the       *)
(* event loop can run other tasks.  The outcomes of the external           *)
(* collaborators (git, the LLMs, the source host) are inputs chosen with   *)
(* \E at the step that consumes them.                                      *)
(***************************************************************************)
EXTENDS Integers, Sequences, FiniteSets, TLC

\* ------------------------------------------------------------------ bounds
\* most code files handed to the Analyze agent / changed files of the diff
MaxFiles == 2
\* most issues the LLM reports for one analysed file
MaxIssuesPerFile == 1
\* most functions Phase 1 of the Test agent discovers
MaxFuncs == 2
\* most whole seconds that pass in start_pipeline between the computation
\* of pipeline_id and the creation of the context
MaxElapsed == 1
\* most WebSocket connections the /ws endpoints accept
MaxSockets == 3
\* most send_message calls
MaxPublications == 2
\* the clock of the ingress model runs from 0 to MaxClock whole seconds
MaxClock == 2
\* most start_pipeline calls that create a pipeline
MaxRuns == 2
\* most HTTP requests to /webhook/github and /agents/trigger
MaxRequests == 3
\* most WebSocket connections the /ws/terminal endpoint accepts
MaxTermSockets == 2
\* most TerminalSession objects start_terminal_session creates
MaxSessions == 2
\* most lines the child processes write
MaxLines == 2
\* most lines of the file given to function discovery
MaxFileLines == 3
\* most function definitions in that file
MaxDefs == 2
\* most entries in the answer to the batched question request
MaxReturned == 2
\* most fixable issues the Fix agent loops over
MaxFixable == 2
\* most pushes by others to the branch while the Fix agent runs
MaxPushes == 1
\* most lines of the file the Fix agent edits
MaxContentLines == 2
\* most lines of old_code and of new_code in a fix proposal
MaxSnippetLines == 1
\* deepest indentation of a line of code
MaxIndent == 1
\* most files in the diff given to the Analyze agent
MaxDiffFiles == 2
\* most lines of a patch given to _parse_patch
MaxPatchLines == 4
\* hunk headers name start lines from 1 to MaxStart
MaxStart == 1
\* most supported files process_files finds in the clone
MaxWalked == 2
\* most functions analyze_python_file finds in one file
MaxFunctions == 1

\* ---------------------------------------------------------------- constants
\* "progress": None of a sub-step tick, and of events without progress
NoProgress == 0 - 1
\* BuildAgent.python_build_commands holds two commands
PythonBuildCommands == 2

ProjectKinds == {"python", "node", "generic"}

Stages == {"build", "analyze", "fix", "test"}

VARIABLES
    pc,            \* position of start_pipeline / _execute_pipeline
    stage,         \* PipelineContext.stage
    errors,        \* PipelineContext.errors
    results,       \* PipelineContext.results
    active,        \* start_pipeline's pipeline_id in active_pipelines
    start_time,    \* int(context.start_time), counted from the second in pipeline_id
    observed,      \* events other than status_update the subscriber received, in order
    progressSeen,  \* per stage: what the status_updates received so far amount to
    pending,       \* send tasks created by the Build agent's log(), not yet run
    comment,       \* outcome of the PR comment post
    writes,        \* number of write_file calls of the Fix agent
    project_type,  \* BuildAgent: metadata['project_type']
    cmdIdx,        \* BuildAgent.run_project_build: index of the command running
    nFiles,        \* AnalyzeAgent: len(code_files)
    fileIdx,       \* AnalyzeAgent: loop index i
    nIssues,       \* AnalyzeAgent: issues merged so far / FixAgent: len(fixable_issues)
    fixIdx,        \* FixAgent: loop index i
    fixesApplied,  \* FixAgent: len(fixes_applied)
    nFuncs,        \* TestAgent phase 1: len(changed_functions)
    nQuestions,    \* TestAgent: len(functions_with_questions)
    genIdx,        \* TestAgent phase 2: loop index i
    nGenerated,    \* TestAgent phase 2: len(generated_tests)
    execIdx,       \* TestAgent phase 3: loop index i
    nPassed        \* TestAgent phase 3: executed test files with status PASSED

\* WebSocketManager of main.py and the sockets of its /ws endpoints
VARIABLES
    connections,   \* WebSocketManager.connections: topic -> list of sockets
    sockState,     \* per socket: "unused", "open", "closed" (peer gone), "gone"
    sockTopic,     \* per socket: the topic of the endpoint that accepted it
    inbox,         \* per socket: the messages it received
    sending,       \* the send_message call in progress, or NoSend
    publications,  \* number of send_message calls so far
    lastPub,       \* what the last finished send_message call amounted to
    evicted        \* sockets a finished send_message call found dead

pipelineVars == <<pc, stage, errors, results, active, start_time, observed,
                  progressSeen, pending, comment, writes, project_type, cmdIdx,
                  nFiles, fileIdx, nIssues, fixIdx, fixesApplied, nFuncs,
                  nQuestions, genIdx, nGenerated, execIdx, nPassed>>

wsVars == <<connections, sockState, sockTopic, inbox, sending, publications,
            lastPub, evicted>>

\* the state outside the one pipeline followed by Spec
VARIABLES
    now,               \* int(time.time()) of the server process
    active_pipelines,  \* MultiAgentPipeline.active_pipelines: id -> context
    runs,              \* the contexts start_pipeline created and their tasks
    starts,            \* the ids on which a pipeline_start was published
    commits,           \* the messages of the commits the Fix agent wrote
    served,            \* number of HTTP requests handled
    lastReq,           \* the last HTTP request handled
    response           \* the answer to the last HTTP request

ingressVars == <<now, active_pipelines, runs, starts, commits, served, lastReq, response>>

VARIABLES
    termConnections,  \* TerminalWebSocketManager.connections[session_id]
    termSockState,    \* per terminal socket: "unused", "open", "closed", "gone"
    termSession,      \* TerminalWebSocketManager.sessions[session_id], 0: none
    sess,             \* the TerminalSession objects created so far
    streamingTask,    \* TerminalWebSocketManager.streaming_tasks[session_id]
    tasks,            \* the _stream_session_output tasks created so far
    startCall,        \* session of the suspended start_terminal_session call
    terminateCall,    \* a terminate_session call is suspended
    lines,            \* number of lines the child processes wrote
    termLog           \* per TerminalSession: the events published about it

termVars == <<termConnections, termSockState, termSession, sess, streamingTask, tasks,
              startCall, terminateCall, lines, termLog>>

VARIABLES
    testPhase,           \* position of the Test agent run
    source_file,         \* the changed file given to phase 1
    changed_functions,   \* result of _discover_changed_functions
    function_questions,  \* result of _generate_function_questions
    generated_tests,     \* run_test_stage_phase2: the tests generated so far
    requests,            \* per question: chat-completion requests sent
    testEvents           \* the events run_test_stage_phase2 published

testAgentVars == <<testPhase, source_file, changed_functions, function_questions,
                   generated_tests, requests, testEvents>>

VARIABLES
    fixPos,          \* position of the Fix agent in its loop over fixable_issues
    fixable_issues,  \* len(fixable_issues)
    repoFile,        \* content of the file on the branch at GitHub
    file_content,    \* _apply_single_fix: result of get_file_content
    fixLog,          \* per fix attempt: what was proposed, written and returned
    update_sha,      \* the sha given to the last update_file call
    fixes_applied,   \* the attempts whose FixResult was appended to fixes_applied
    commits_made,    \* fix loop: commits_made
    fix_errors,      \* the attempts for which the loop appended to errors
    pushes           \* pushes by others to the branch so far

fixAgentVars == <<fixPos, fixable_issues, repoFile, file_content, fixLog, update_sha,
                  fixes_applied, commits_made, fix_errors, pushes>>

VARIABLES
    analyzePos,   \* position of analyze_pr_diff
    diff_files,   \* diff_data['changed_files']
    code_files,   \* analyze_pr_diff: code_files
    analyzeIdx,   \* analyze_pr_diff: files of code_files analysed so far
    analysis      \* the AnalysisResult analyze_pr_diff builds and returns

analyzeAgentVars == <<analyzePos, diff_files, code_files, analyzeIdx, analysis>>

VARIABLES
    parsing,         \* position of _parse_patch
    patch,           \* _parse_patch: lines, the lines of the patch
    patchPos,        \* _parse_patch: lines consumed by the loop
    parsed           \* _parse_patch: the counters and the three lists

patchVars == <<parsing, patch, patchPos, parsed>>

VARIABLES
    context_results,  \* aggregate_pipeline_results: context.results
    complete_record   \* the PipelineResultsComplete it returns

aggregateVars == <<context_results, complete_record>>

VARIABLES
    buildPos,        \* position of build_pr_branch
    clone_outcome,   \* how clone_repository ended
    steps_run,       \* the steps of build_pr_branch that were run
    walked,          \* process_files: the supported files found in the clone
    built            \* the BuildResult build_pr_branch returns

buildAgentVars == <<buildPos, clone_outcome, steps_run, walked, built>>

\* one TerminalSession, its three threads and its streaming task
VARIABLES
    process,      \* the child process: "none", "running", "exited"
    pipe,         \* per stream: the lines written and not yet read by readline
    queues,       \* output_queue (stdout) and error_queue (stderr)
    is_running,   \* TerminalSession.is_running
    monitor,      \* position of the thread of _monitor_process
    streaming,    \* position of the task of _stream_session_output
    sent,         \* the events _stream_session_output published, in order
    written       \* number of lines the child process wrote

sessionVars == <<process, pipe, queues, is_running, monitor, streaming, sent, written>>

\* the variables of the utility models
utilVars == <<patchVars, aggregateVars, buildAgentVars, sessionVars>>

otherVars == <<wsVars, ingressVars, termVars, testAgentVars, fixAgentVars, analyzeAgentVars,
               utilVars>>

\* the variables outside each of the component models
outsideBus == <<pipelineVars, ingressVars, termVars, testAgentVars, fixAgentVars, analyzeAgentVars,
                 utilVars>>

outsideIngress == <<pipelineVars, wsVars, termVars, testAgentVars, fixAgentVars, analyzeAgentVars,
                     utilVars>>

outsideTerminal == <<pipelineVars, wsVars, ingressVars, testAgentVars, fixAgentVars,
                    analyzeAgentVars, utilVars>>

outsideTestAgent == <<pipelineVars, wsVars, ingressVars, termVars, fixAgentVars, analyzeAgentVars,
                       utilVars>>

outsideFixAgent == <<pipelineVars, wsVars, ingressVars, termVars, testAgentVars, analyzeAgentVars,
                      utilVars>>

outsideAnalyze == <<pipelineVars, wsVars, ingressVars, termVars, testAgentVars, fixAgentVars,
                   utilVars>>

outsidePatch == <<pipelineVars, wsVars, ingressVars, termVars, testAgentVars, fixAgentVars,
                 analyzeAgentVars, aggregateVars, buildAgentVars, sessionVars>>

outsideAggregate == <<pipelineVars, wsVars, ingressVars, termVars, testAgentVars, fixAgentVars,
                     analyzeAgentVars, patchVars, buildAgentVars, sessionVars>>

outsideBuildAgent == <<pipelineVars, wsVars, ingressVars, termVars, testAgentVars,
                      fixAgentVars, analyzeAgentVars, patchVars, aggregateVars,
                      sessionVars>>

outsideSession == <<pipelineVars, wsVars, ingressVars, termVars, testAgentVars,
                   fixAgentVars, analyzeAgentVars, patchVars, aggregateVars,
                   buildAgentVars>>

vars == <<pipelineVars, otherVars>>

ctxVars     == <<stage, errors, results>>
busVars     == <<observed, progressSeen, pending>>
buildVars   == <<project_type, cmdIdx>>
analyzeVars == <<nFiles, fileIdx, nIssues>>
fixVars     == <<fixIdx, fixesApplied, writes>>
testVars    == <<nFuncs, nQuestions, genIdx, nGenerated, execIdx, nPassed>>

\* ------------------------------------------------------------------ events
NoSummary == [build |-> "", analyze |-> "", fix |-> "", test |-> ""]

\* task = TRUE when the event is sent by a fire-and-forget task instead of
\* an awaited send
Msg(type, stg, progress, status, task) ==
    [type |-> type, stage |-> stg, progress |-> progress, status |-> status,
     task |-> task, summary |-> NoSummary]

StageStart(stg)            == Msg("stage_start", stg, NoProgress, "", FALSE)
StageComplete(stg, status) == Msg("stage_complete", stg, NoProgress, status, FALSE)
StatusUpdate(stg, p)       == Msg("status_update", stg, p, "in_progress", FALSE)
ErrorEvent(stg)            == Msg("error", stg, NoProgress, "", FALSE)
Other(type, stg, p)        == Msg(type, stg, p, "in_progress", FALSE)

IsTask(e)         == e.task
IsDirectUpdate(e) == ~e.task /\ e.type = "status_update"
IsDirectOther(e)  == ~e.task /\ e.type # "status_update"

\* the subscriber receives a status_update with progress p of a stage whose
\* updates so far amount to d: the last non-null progress, whether a
\* non-null progress was smaller than the one before it, and whether one
\* was outside 0..100
ReceiveUpdate(d, p) ==
    IF p = NoProgress THEN d
    ELSE [last     |-> p,
          dropped  |-> d.dropped \/ (d.last # NoProgress /\ p < d.last),
          outside  |-> d.outside \/ p < 0 \/ p > 100]

RECURSIVE ReceiveUpdates(_, _)
ReceiveUpdates(seen, updates) ==
    IF updates = <<>> THEN seen
    ELSE ReceiveUpdates(
            [seen EXCEPT ![Head(updates).stage] = ReceiveUpdate(@, Head(updates).progress)],
            Tail(updates))

\* WebSocketManager.send_message reached through
\* MultiAgentPipeline.send_websocket_message: an awaited send reaches the
\* subscriber at once, an event of log() only creates a task
Publish(seg) ==
    /\ observed'     = observed \o SelectSeq(seg, IsDirectOther)
    /\ progressSeen' = ReceiveUpdates(progressSeen, SelectSeq(seg, IsDirectUpdate))
    /\ pending'      = pending \o SelectSeq(seg, IsTask)

\* ------------------------------------------------------ WebSocketManager
Sockets == 1..MaxSockets

\* the pipeline ids the /ws/{pipeline_id} clients and the publishers use
PipelineIds == {"p1", "p2"}

AllPipelines == "all_pipelines"

Topics == PipelineIds \cup {AllPipelines}

\* no send_message call is in progress
NoSend ==
    [phase |-> "idle", pipeline_id |-> "", event |-> 0, target |-> 0, next |-> 0,
     dead |-> {}, detached |-> FALSE, due |-> {}, missed |-> {}, failed |-> {},
     disturbed |-> FALSE]

\* no send_message call has finished yet
NoPub ==
    [event |-> 0, pipeline_id |-> "", missed |-> {}, failed |-> {},
     disturbed |-> FALSE]

\* ------------------------------------------------------------- HTTP ingress
\* pull requests of the one repository of the model
PRs == {1, 2}

\* A commit message is a sequence of tokens; a token is a marker or a piece
\* of other text, so "marker in message" is membership of a token.  The
\* robot emoji of the source is written <robot>.
ai_markers ==
    {"[skip-pipeline]", "<robot> AI Fix:", "<robot> AI Test:", "<robot> AI Refactor:",
     "[ai-generated]", "[hackademia-ai]"}

\* fix_data['fix_summary'] values: plain text, empty, text naming a marker
Summaries == {<<"text">>, <<>>, <<"text", "[ai-generated]">>}

\* messages of the commits developers push
DevMessages == {<<"text">>} \cup {<<"text", m>> : m \in ai_markers}

\* no HTTP request has been handled yet
NoRequest ==
    [endpoint |-> "none", pull_request |-> FALSE, action |-> "", pr |-> 0,
     repo_name |-> FALSE, sha |-> FALSE, message |-> <<>>, again |-> FALSE]

NoResponse ==
    [status |-> 0, reason |-> "", pipeline_id |-> <<>>, pipeline_status |-> ""]

\* ------------------------------------------------ TerminalWebSocketManager
TermSockets == 1..MaxTermSockets

\* the session id has no entry in TerminalWebSocketManager.connections
NoList == [present |-> FALSE, list |-> <<>>]

\* TerminalSession.__init__ followed by a successful start_process
NewSession ==
    [is_running |-> TRUE, exited |-> FALSE, signalled |-> FALSE,
     output_queue |-> <<>>, error_queue |-> <<>>]

\* nothing has been published about a TerminalSession
NoEvents ==
    [terminal_start |-> 0, terminal_terminating |-> 0, terminal_end |-> 0,
     terminal_output |-> <<>>, terminated |-> FALSE]

\* the completion message _monitor_process puts on the output queue
Completed == 0

\* ------------------------------------------------------------- Test agent
\* no file has been given to function discovery
NoFile == [filename |-> "", lines |-> 0, defs |-> <<>>, added_lines |-> {}]

\* -------------------------------------------------------------- Fix agent
\* a text without lines: no file
NoContent == <<>>

\* get_file_content returned None, or was not called yet
NoRead == [sha |-> NoContent, content |-> NoContent]

\* ---------------------------------------------------------- Analyze agent
\* the AnalysisResult analyze_pr_diff starts from
NoAnalysis ==
    [success |-> TRUE, vulnerabilities |-> <<>>, security_issues |-> <<>>,
     quality_issues |-> <<>>]

\* ------------------------------------------------------------ _parse_patch
\* _parse_patch before its loop: both counters 0, the three lists empty
NothingParsed ==
    [old_line_num |-> 0, new_line_num |-> 0, added_lines |-> <<>>,
     removed_lines |-> <<>>, context_lines |-> <<>>]

\* ------------------------------------------------ aggregate_pipeline_results
\* context.results of a pipeline that has stored no stage result
NoStageResults == [s \in Stages |-> "absent"]

\* aggregate_pipeline_results has not returned
NoRecord == [pipeline_status |-> "none", success_rate |-> 0 - 1]

\* ---------------------------------------------------------- build_pr_branch
\* the locals of build_pr_branch before its first step: no errors, no
\* warnings, empty metadata and file_info
NoBuildResult ==
    [returned |-> FALSE, success |-> FALSE, errors |-> {}, warnings |-> {},
     metadata |-> [project_type |-> "", total_files |-> 0, supported_files |-> 0,
                   total_functions |-> 0, total_classes |-> 0,
                   unique_dependencies |-> 0],
     file_info |-> <<>>]

\* ---------------------------------------------------------- TerminalSession
\* the two pipes of the child process, or the two queues, with nothing in them
NoLines == [stdout |-> <<>>, stderr |-> <<>>]

\* ------------------------------------------------------------------- state
NoResults ==
    [build   |-> [present |-> FALSE, success |-> FALSE],
     analyze |-> [present |-> FALSE, success |-> FALSE, total_issues |-> 0],
     fix     |-> [present |-> FALSE, success |-> FALSE, fixes_applied |-> 0],
     test    |-> [present |-> FALSE, success |-> FALSE, functions_discovered |-> 0,
                  tests_generated |-> 0, tests_executed |-> 0, tests_passed |-> 0]]

NothingSeen == [last |-> NoProgress, dropped |-> FALSE, outside |-> FALSE]

Init ==
    /\ pc = "idle"
    /\ stage = "none"
    /\ errors = <<>>
    /\ results = NoResults
    /\ active = FALSE
    /\ start_time = 0
    /\ observed = <<>>
    /\ progressSeen = [s \in Stages |-> NothingSeen]
    /\ pending = <<>>
    /\ comment = "none"
    /\ writes = 0
    /\ project_type = "unknown"
    /\ cmdIdx = 0
    /\ nFiles = 0
    /\ fileIdx = 0
    /\ nIssues = 0
    /\ fixIdx = 0
    /\ fixesApplied = 0
    /\ nFuncs = 0
    /\ nQuestions = 0
    /\ genIdx = 0
    /\ nGenerated = 0
    /\ execIdx = 0
    /\ nPassed = 0
    /\ connections = <<>>
    /\ sockState = [s \in Sockets |-> "unused"]
    /\ sockTopic = [s \in Sockets |-> AllPipelines]
    /\ inbox = [s \in Sockets |-> {}]
    /\ sending = NoSend
    /\ publications = 0
    /\ lastPub = NoPub
    /\ evicted = {}
    /\ now = 0
    /\ active_pipelines = <<>>
    /\ runs = <<>>
    /\ starts = {}
    /\ commits = {}
    /\ served = 0
    /\ lastReq = NoRequest
    /\ response = NoResponse
    /\ termConnections = NoList
    /\ termSockState = [k \in TermSockets |-> "unused"]
    /\ termSession = 0
    /\ sess = <<>>
    /\ streamingTask = 0
    /\ tasks = <<>>
    /\ startCall = 0
    /\ terminateCall = FALSE
    /\ lines = 0
    /\ termLog = <<>>
    /\ testPhase = "discover"
    /\ source_file = NoFile
    /\ changed_functions = <<>>
    /\ function_questions = <<>>
    /\ generated_tests = <<>>
    /\ requests = <<>>
    /\ testEvents = <<>>
    /\ fixPos = "idle"
    /\ fixable_issues = 0
    /\ repoFile = NoContent
    /\ file_content = NoRead
    /\ fixLog = <<>>
    /\ update_sha = NoContent
    /\ fixes_applied = <<>>
    /\ commits_made = 0
    /\ fix_errors = <<>>
    /\ pushes = 0
    /\ analyzePos = "idle"
    /\ diff_files = <<>>
    /\ code_files = <<>>
    /\ analyzeIdx = 0
    /\ analysis = NoAnalysis
    /\ parsing = "idle"
    /\ patch = <<>>
    /\ patchPos = 0
    /\ parsed = NothingParsed
    /\ context_results = NoStageResults
    /\ complete_record = NoRecord
    /\ buildPos = "idle"
    /\ clone_outcome = "none"
    /\ steps_run = {}
    /\ walked = <<>>
    /\ built = NoBuildResult
    /\ process = "none"
    /\ pipe = NoLines
    /\ queues = NoLines
    /\ is_running = FALSE
    /\ monitor = "none"
    /\ streaming = "none"
    /\ sent = <<>>
    /\ written = 0

\* ---------------------------------------------------------- start_pipeline
\* get_pull_request found the PR: the context is created in stage pending,
\* stored in active_pipelines, pipeline_start is sent and the task is created
start_pipeline ==
    /\ pc = "idle"
    /\ pc' = "exec"
    /\ stage' = "pending"
    /\ active' = TRUE
    /\ \E elapsed \in 0..MaxElapsed : start_time' = elapsed
    /\ Publish(<<Msg("pipeline_start", "", NoProgress, "", FALSE)>>)
    /\ UNCHANGED <<errors, results, comment, otherVars, buildVars, analyzeVars, fixVars, testVars>>

\* get_pull_request returned nothing or raised: no pipeline is created
start_pipeline_fails ==
    /\ pc = "idle"
    /\ pc' = "rejected"
    /\ UNCHANGED <<ctxVars, active, start_time, busVars, comment, otherVars, buildVars, analyzeVars,
                   fixVars, testVars>>

\* ------------------------------------------------------------- event loop
\* positions where the coroutine is suspended on external I/O (or has
\* ended), so that the loop runs the ready send tasks
YieldPcs == {"build_clone", "build_install_wait", "build_cmd_wait",
             "analyze_file", "fix_issue", "test_lm_studio", "done"}

\* the event loop runs the send tasks log() created, in creation order
RunReadyTasks ==
    /\ pc \in YieldPcs
    /\ pending # <<>>
    /\ progressSeen' = ReceiveUpdates(progressSeen, pending)
    /\ pending' = <<>>
    /\ UNCHANGED <<pc, ctxVars, active, start_time, observed, comment, otherVars, buildVars,
                   analyzeVars,
                   fixVars, testVars>>

\* -------------------------------------------------------------- Build stage
\* BuildAgent.build_pr_branch.log
Log(p) == Msg("status_update", "build", p, "", TRUE)

\* _run_build_stage up to the await of clone_repository
RunBuildStage ==
    /\ pc = "exec"
    /\ pc' = "build_clone"
    /\ stage' = "build"
    /\ Publish(<<StageStart("build"), Log(5)>>)
    /\ UNCHANGED <<errors, results, active, start_time, comment, otherVars, buildVars, analyzeVars,
                   fixVars, testVars>>

\* what _run_build_stage does once build_pr_branch has returned
BuildReturns(success, logs, errs) ==
    /\ results' = [results EXCEPT !.build = [present |-> TRUE, success |-> success]]
    /\ Publish(logs \o <<StageComplete("build", IF success THEN "success" ELSE "failed")>>)
    /\ stage' = IF success THEN stage ELSE "failed"
    /\ errors' = IF success THEN errors ELSE errors \o errs
    /\ pc' = "analyze_gate"

\* clone_repository raised: baseline metadata, success = False
CloneRepositoryFails ==
    /\ pc = "build_clone"
    /\ pending = <<>>
    /\ BuildReturns(FALSE, <<Log(100)>>, <<"Repository clone failed">>)
    /\ UNCHANGED <<active, start_time, comment, otherVars, buildVars, analyzeVars, fixVars,
                   testVars>>

\* clone_repository returned; detect_project_type
CloneRepositoryOk ==
    /\ pc = "build_clone"
    /\ pending = <<>>
    /\ \E kind \in ProjectKinds : project_type' = kind
    /\ pc' = "build_deps"
    /\ Publish(<<Log(20), Log(30)>>)
    /\ UNCHANGED <<ctxVars, active, start_time, comment, otherVars, cmdIdx, analyzeVars,
                   fixVars, testVars>>

\* an exception the Build agent does not catch leaves _run_build_stage
BuildAgentRaises ==
    /\ pc = "build_deps"
    /\ pc' = "except"
    /\ UNCHANGED <<ctxVars, active, start_time, busVars, comment, otherVars, buildVars, analyzeVars,
                   fixVars, testVars>>

\* install_dependencies: a command is run when the manifest is there
InstallDependencies ==
    /\ pc = "build_deps"
    /\ \E hasRequirements \in BOOLEAN :
          IF project_type = "node" \/ (project_type = "python" /\ hasRequirements)
          THEN /\ pc' = "build_install_wait"
               /\ Publish(<<Log(NoProgress)>>)
          ELSE /\ pc' = "build_run"
               /\ Publish(<<Log(45)>>)
    /\ UNCHANGED <<ctxVars, active, start_time, comment, otherVars, buildVars, analyzeVars,
                   fixVars, testVars>>

\* the lines run_command logs after the subprocess has ended
CommandLogs(outcome) ==
    CASE outcome = "quiet"  -> <<>>
      [] outcome = "output" -> <<Log(NoProgress)>>
      [] outcome = "failed" -> <<Log(NoProgress), Log(NoProgress)>>

CommandOutcomes == {"quiet", "output", "failed"}

\* run_command of install_dependencies returned
InstallReturns ==
    /\ pc = "build_install_wait"
    /\ pending = <<>>
    /\ pc' = "build_run"
    /\ \E outcome \in CommandOutcomes : Publish(CommandLogs(outcome) \o <<Log(45)>>)
    /\ UNCHANGED <<ctxVars, active, start_time, comment, otherVars, buildVars, analyzeVars,
                   fixVars, testVars>>

\* run_project_build: first command, or none for a node project without a
\* build script
RunProjectBuild ==
    /\ pc = "build_run"
    /\ \E hasBuildScript \in BOOLEAN :
          IF project_type = "node" /\ ~hasBuildScript
          THEN /\ pc' = "build_files"
               /\ cmdIdx' = 0
               /\ Publish(<<Log(70)>>)
          ELSE /\ pc' = "build_cmd_wait"
               /\ cmdIdx' = 1
               /\ Publish(<<Log(NoProgress)>>)
    /\ UNCHANGED <<ctxVars, active, start_time, comment, otherVars, project_type,
                   analyzeVars, fixVars, testVars>>

\* run_command of run_project_build returned; a python project tries its
\* second command when the first failed
BuildCommandReturns ==
    /\ pc = "build_cmd_wait"
    /\ pending = <<>>
    /\ \E outcome \in CommandOutcomes :
          IF outcome = "failed" /\ project_type = "python" /\ cmdIdx < PythonBuildCommands
          THEN /\ pc' = "build_cmd_wait"
               /\ cmdIdx' = cmdIdx + 1
               /\ Publish(CommandLogs(outcome) \o <<Log(NoProgress)>>)
          ELSE /\ pc' = "build_files"
               /\ cmdIdx' = cmdIdx
               /\ Publish(CommandLogs(outcome) \o <<Log(70)>>)
    /\ UNCHANGED <<ctxVars, active, start_time, comment, otherVars, project_type,
                   analyzeVars, fixVars, testVars>>

\* process_files (no suspension), the end of build_pr_branch and the rest
\* of _run_build_stage
ProcessFiles ==
    /\ pc = "build_files"
    /\ \E ok \in BOOLEAN :
          BuildReturns(ok, <<Log(85), Log(95), Log(100)>>, <<"File analysis failed">>)
    /\ cmdIdx' = 0
    /\ UNCHANGED <<active, start_time, comment, otherVars, project_type, analyzeVars,
                   fixVars, testVars>>

\* ------------------------------------------------------------ Analyze stage
\* _execute_pipeline: "if context.stage != PipelineStage.FAILED" is false
SkipAnalyzeStage ==
    /\ pc = "analyze_gate"
    /\ stage = "failed"
    /\ pc' = "fix_gate"
    /\ UNCHANGED <<ctxVars, active, start_time, busVars, comment, otherVars, buildVars, analyzeVars,
                   fixVars, testVars>>

\* _run_analyze_stage up to the fetch of the PR diff
RunAnalyzeStage ==
    /\ pc = "analyze_gate"
    /\ stage # "failed"
    /\ pc' = "analyze_diff"
    /\ stage' = "analyze"
    /\ Publish(<<StageStart("analyze")>>)
    /\ UNCHANGED <<errors, results, active, start_time, comment, otherVars, buildVars, analyzeVars,
                   fixVars, testVars>>

\* except branch of _run_analyze_stage: no diff data, or the agent raised
AnalyzeStageRaises ==
    /\ pc = "analyze_diff"
    /\ pc' = "fix_gate"
    /\ Publish(<<ErrorEvent("analyze"), StageComplete("analyze", "failed")>>)
    /\ stage' = "failed"
    /\ errors' = errors \o <<"Analysis failed">>
    /\ results' = [results EXCEPT !.analyze =
                      [present |-> TRUE, success |-> FALSE, total_issues |-> 0]]
    /\ UNCHANGED <<active, start_time, comment, otherVars, buildVars, analyzeVars, fixVars,
                   testVars>>

\* AnalyzeReturns without "context.stage = PipelineStage.FAILED"
AnalyzeReturns_KeepsStage(success, total, last) ==
    /\ results' = [results EXCEPT !.analyze =
                      [present |-> TRUE, success |-> success, total_issues |-> total]]
    /\ Publish(last \o <<StageComplete("analyze", IF success THEN "success" ELSE "failed")>>)
    /\ stage' = stage
    /\ errors' = IF success THEN errors ELSE errors \o <<"Analysis stage had issues">>
    /\ pc' = "fix_gate"

\* what _run_analyze_stage does once analyze_pr_diff has returned
AnalyzeReturns(success, total, last) ==
    /\ results' = [results EXCEPT !.analyze =
                      [present |-> TRUE, success |-> success, total_issues |-> total]]
    /\ Publish(last \o <<StageComplete("analyze", IF success THEN "success" ELSE "failed")>>)
    /\ stage' = IF success THEN stage ELSE "failed"
    /\ errors' = IF success THEN errors ELSE errors \o <<"Analysis stage had issues">>
    /\ pc' = "fix_gate"

\* analyze_pr_diff before its loop; without code files it returns at once
AnalyzePrDiff ==
    /\ pc = "analyze_diff"
    /\ \E n \in 0..MaxFiles :
          /\ nFiles' = n
          /\ IF n = 0
             THEN /\ AnalyzeReturns(TRUE, 0, <<StatusUpdate("analyze", 5),
                                              StatusUpdate("analyze", 10),
                                              StatusUpdate("analyze", 15)>>)
             ELSE /\ Publish(<<StatusUpdate("analyze", 5), StatusUpdate("analyze", 10),
                               StatusUpdate("analyze", 15), StatusUpdate("analyze", 30)>>)
                  /\ pc' = "analyze_file"
                  /\ UNCHANGED ctxVars
    /\ fileIdx' = 0
    /\ nIssues' = 0
    /\ UNCHANGED <<active, start_time, comment, otherVars, buildVars, fixVars, testVars>>

\* "progress": 30 + (i * 40 // len(code_files))
AnalyzeFileStartProgress(i, n) == 30 + ((i * 40) \div n)

\* progress = 30 + int((i + 1) / len(code_files) * 50)
AnalyzeFileDoneProgress(i, n) == 30 + (((i + 1) * 50) \div n)

\* one iteration of the loop of analyze_pr_diff, _analyze_single_file included
AnalyzeSingleFile ==
    /\ pc = "analyze_file"
    /\ fileIdx < nFiles
    /\ \E hasAddedLines \in BOOLEAN, found \in 0..MaxIssuesPerFile :
          /\ hasAddedLines \/ found = 0
          /\ Publish(<<StatusUpdate("analyze", AnalyzeFileStartProgress(fileIdx, nFiles))>>
                     \o (IF hasAddedLines
                         THEN <<StatusUpdate("analyze", NoProgress),
                                StatusUpdate("analyze", NoProgress)>>
                         ELSE <<>>)
                     \o <<StatusUpdate("analyze", AnalyzeFileDoneProgress(fileIdx, nFiles))>>)
          /\ nIssues' = nIssues + found
    /\ fileIdx' = fileIdx + 1
    /\ UNCHANGED <<pc, ctxVars, active, start_time, comment, otherVars, buildVars, nFiles,
                   fixVars, testVars>>

\* except branch of analyze_pr_diff: the agent returns success = False
AnalyzeAgentFails ==
    /\ pc = "analyze_file"
    /\ fileIdx < nFiles
    /\ AnalyzeReturns(FALSE, 0, <<>>)
    /\ nFiles' = 0 /\ fileIdx' = 0 /\ nIssues' = 0
    /\ UNCHANGED <<active, start_time, comment, otherVars, buildVars, fixVars, testVars>>

\* the loop is over: total_issues, the 90% update and the return
AnalyzeFinish ==
    /\ pc = "analyze_file"
    /\ fileIdx = nFiles
    /\ AnalyzeReturns(TRUE, nIssues, <<StatusUpdate("analyze", 90)>>)
    /\ nFiles' = 0 /\ fileIdx' = 0 /\ nIssues' = 0
    /\ UNCHANGED <<active, start_time, comment, otherVars, buildVars, fixVars, testVars>>

\* ---------------------------------------------------------------- Fix stage
\* the condition of stage 3 without the test of total_issues
FixCondition_AnyAnalysis == stage # "failed"

\* _execute_pipeline: the condition of stage 3
FixCondition == stage # "failed" /\ results.analyze.total_issues > 0

SkipFixStage ==
    /\ pc = "fix_gate"
    /\ ~FixCondition
    /\ pc' = "test_gate"
    /\ UNCHANGED <<ctxVars, active, start_time, busVars, comment, otherVars, buildVars, analyzeVars,
                   fixVars, testVars>>

\* _run_fix_stage up to the call of apply_fixes; it returns at once when
\* the stored analysis is not a success
RunFixStage ==
    /\ pc = "fix_gate"
    /\ FixCondition
    /\ pc' = IF results.analyze.success THEN "fix_call" ELSE "test_gate"
    /\ stage' = "fix"
    /\ UNCHANGED <<errors, results, active, start_time, busVars, comment, otherVars, buildVars,
                   analyzeVars, fixVars, testVars>>

\* except branch of _run_fix_stage: an exception left the Fix agent
FixStageRaises ==
    /\ pc = "fix_call"
    /\ pc' = "test_gate"
    /\ Publish(<<ErrorEvent("fix"), StageComplete("fix", "failed")>>)
    /\ stage' = "failed"
    /\ errors' = errors \o <<"Fix failed">>
    /\ results' = [results EXCEPT !.fix =
                      [present |-> TRUE, success |-> FALSE, fixes_applied |-> 0]]
    /\ UNCHANGED <<active, start_time, comment, otherVars, buildVars, analyzeVars, fixVars,
                   testVars>>

\* FixReturns treating success = False as Build and Analyze do
FixReturns_FailsPipeline(success, applied, last) ==
    /\ results' = [results EXCEPT !.fix =
                      [present |-> TRUE, success |-> success, fixes_applied |-> applied]]
    /\ Publish(last)
    /\ pc' = "test_gate"
    /\ stage' = IF success THEN stage ELSE "failed"
    /\ UNCHANGED errors

\* what _run_fix_stage does once apply_fixes has returned
FixReturns(success, applied, last) ==
    /\ results' = [results EXCEPT !.fix =
                      [present |-> TRUE, success |-> success, fixes_applied |-> applied]]
    /\ Publish(last)
    /\ pc' = "test_gate"
    /\ UNCHANGED <<stage, errors>>

\* apply_fixes before its loop; every reported issue is fixable
\* (_filter_high_confidence_issues keeps them all, and total_issues > 0)
ApplyFixes ==
    /\ pc = "fix_call"
    /\ pc' = "fix_issue"
    /\ Publish(<<StageStart("fix"), StatusUpdate("fix", 10)>>)
    /\ nIssues' = results.analyze.total_issues
    /\ fixIdx' = 0
    /\ fixesApplied' = 0
    /\ UNCHANGED <<ctxVars, active, start_time, comment, otherVars, buildVars, nFiles,
                   fileIdx, writes, testVars>>

\* outer except branch of apply_fixes: error event, success = False
ApplyFixesFails ==
    /\ pc = "fix_call"
    /\ FixReturns(FALSE, 0, <<StageStart("fix"), ErrorEvent("fix")>>)
    /\ UNCHANGED <<active, start_time, comment, otherVars, buildVars, analyzeVars, fixVars,
                   testVars>>

\* "progress": 15 + (i * 60 // len(fixable_issues))
FixProgress(i, n) == 15 + ((i * 60) \div n)

FixOutcomes == {"no_file", "no_fix", "write_rejected", "applied"}

\* one iteration of the loop of apply_fixes, _apply_single_fix included
ApplySingleFix ==
    /\ pc = "fix_issue"
    /\ fixIdx < nIssues
    /\ \E outcome \in FixOutcomes :
          /\ Publish(<<StatusUpdate("fix", FixProgress(fixIdx, nIssues))>>
                     \o (IF outcome = "no_file" THEN <<>>
                         ELSE <<StatusUpdate("fix", NoProgress)>>)
                     \o (IF outcome = "applied"
                         THEN <<StatusUpdate("fix", FixProgress(fixIdx + 1, nIssues))>>
                         ELSE <<>>))
          /\ writes' = IF outcome \in {"write_rejected", "applied"} THEN writes + 1 ELSE writes
          /\ fixesApplied' = IF outcome = "applied" THEN fixesApplied + 1 ELSE fixesApplied
    /\ fixIdx' = fixIdx + 1
    /\ UNCHANGED <<pc, ctxVars, active, start_time, comment, otherVars, buildVars,
                   analyzeVars, testVars>>

\* the loop is over: stage_complete of the agent and the return
FixFinish ==
    /\ pc = "fix_issue"
    /\ fixIdx = nIssues
    /\ FixReturns(TRUE, fixesApplied,
                  <<StageComplete("fix", IF fixesApplied > 0 THEN "success" ELSE "warning")>>)
    /\ nIssues' = 0 /\ fixIdx' = 0 /\ fixesApplied' = 0
    /\ UNCHANGED <<active, start_time, comment, otherVars, buildVars, nFiles, fileIdx,
                   writes, testVars>>

\* --------------------------------------------------------------- Test stage
SkipTestStage ==
    /\ pc = "test_gate"
    /\ stage = "failed"
    /\ pc' = "complete"
    /\ UNCHANGED <<ctxVars, active, start_time, busVars, comment, otherVars, buildVars, analyzeVars,
                   fixVars, testVars>>

\* _run_test_stage_complete up to the call of run_test_stage_phase1
RunTestStage ==
    /\ pc = "test_gate"
    /\ stage # "failed"
    /\ pc' = "test_phase1"
    /\ stage' = "test"
    /\ Publish(<<StageStart("test")>>)
    /\ UNCHANGED <<errors, results, active, start_time, comment, otherVars, buildVars, analyzeVars,
                   fixVars, testVars>>

TestResult(success, funcs, generated, executed, passed) ==
    [present |-> TRUE, success |-> success, functions_discovered |-> funcs,
     tests_generated |-> generated, tests_executed |-> executed,
     tests_passed |-> passed]

\* the end of _run_test_stage_complete: results stored, stage_complete sent
TestStageEnds(success, funcs, generated, executed, passed, last) ==
    /\ results' = [results EXCEPT !.test =
                      TestResult(success, funcs, generated, executed, passed)]
    /\ Publish(last \o <<StageComplete("test", IF success THEN "success" ELSE "failed")>>)
    /\ pc' = "complete"
    /\ nFuncs' = 0 /\ nQuestions' = 0 /\ genIdx' = 0 /\ nGenerated' = 0
    /\ execIdx' = 0 /\ nPassed' = 0
    /\ UNCHANGED <<stage, errors, active, start_time, comment, otherVars, buildVars,
                   analyzeVars, fixVars>>

\* except branch of _run_test_stage_complete
TestStageRaises ==
    /\ pc = "test_phase1"
    /\ TestStageEnds(FALSE, 0, 0, 0, 0, <<>>)

\* "progress": 15 + (i * 15 // len(changed_files))
DiscoverProgress(i, m) == 15 + ((i * 15) \div m)

\* the status updates of the loop of _discover_changed_functions over the
\* changed files i..m-1, of which those in py are Python files
RECURSIVE DiscoverEvents(_, _, _)
DiscoverEvents(i, m, py) ==
    IF i >= m THEN <<>>
    ELSE (IF i \in py THEN <<StatusUpdate("test", DiscoverProgress(i, m))>> ELSE <<>>)
         \o DiscoverEvents(i + 1, m, py)

\* run_test_stage_phase1 up to the end of _discover_changed_functions
Phase1Head(m, py) ==
    <<Other("test_start", "test", NoProgress), StatusUpdate("test", 10)>>
    \o DiscoverEvents(0, m, py)

\* run_test_stage_phase1 finds no function: it sends stage_complete
\* "skipped" and returns success; phases 2 and 3 are not entered
Phase1NoFunctions ==
    /\ pc = "test_phase1"
    /\ \E m \in 0..MaxFiles : \E py \in SUBSET (0..(m - 1)) :
          TestStageEnds(TRUE, 0, 0, 0, 0,
                        Phase1Head(m, py) \o <<StageComplete("test", "skipped")>>)

\* except branch of run_test_stage_phase1: error event, success = False
Phase1Fails ==
    /\ pc = "test_phase1"
    /\ \E m \in 0..MaxFiles : \E py \in SUBSET (0..(m - 1)) :
          TestStageEnds(FALSE, 0, 0, 0, 0, Phase1Head(m, py) \o <<ErrorEvent("test")>>)

\* run_test_stage_phase1 from the discovery of functions to its return,
\* _generate_function_questions included
Phase1Tail ==
    <<Other("functions_discovered", "test", 30), StatusUpdate("test", 50),
      StatusUpdate("test", 60), StatusUpdate("test", 75)>>

\* run_test_stage_phase1 finds f functions and gets q questions; with
\* questions the orchestrator announces phase 2 and run_test_stage_phase2
\* runs up to the LM Studio connection test
Phase1Discovers ==
    /\ pc = "test_phase1"
    /\ \E m \in 1..MaxFiles : \E py \in SUBSET (0..(m - 1)) :
       \E f \in 1..MaxFuncs : \E q \in 0..f :
          /\ py # {}
          /\ IF q = 0
             THEN TestStageEnds(TRUE, f, 0, 0, 0, Phase1Head(m, py) \o Phase1Tail)
             ELSE /\ Publish(Phase1Head(m, py) \o Phase1Tail
                             \o <<StatusUpdate("test", 65), StatusUpdate("test", 70)>>)
                  /\ pc' = "test_lm_studio"
                  /\ nFuncs' = f
                  /\ nQuestions' = q
                  /\ UNCHANGED <<ctxVars, active, start_time, comment, otherVars, buildVars,
                                 analyzeVars,
                                 fixVars, genIdx, nGenerated, execIdx, nPassed>>

\* _test_lm_studio_connection failed: phase 2 returns no test
LmStudioDown ==
    /\ pc = "test_lm_studio"
    /\ pending = <<>>
    /\ TestStageEnds(TRUE, nFuncs, 0, 0, 0, <<>>)

LmStudioUp ==
    /\ pc = "test_lm_studio"
    /\ pending = <<>>
    /\ pc' = "test_generate"
    /\ UNCHANGED <<ctxVars, active, start_time, busVars, comment, otherVars, buildVars, analyzeVars,
                   fixVars, testVars>>

\* progress = 70 + (i * 20 // len(function_questions))
GenerateProgress(i, q) == 70 + ((i * 20) \div q)

\* one iteration of the loop of run_test_stage_phase2
GenerateSingleTest ==
    /\ pc = "test_generate"
    /\ genIdx < nQuestions
    /\ \E ok \in BOOLEAN :
          /\ Publish(<<Other("test_generation_start", "test",
                             GenerateProgress(genIdx, nQuestions)),
                       Other(IF ok THEN "test_generated" ELSE "test_generation_failed",
                             "test", NoProgress)>>)
          /\ nGenerated' = IF ok THEN nGenerated + 1 ELSE nGenerated
    /\ genIdx' = genIdx + 1
    /\ UNCHANGED <<pc, ctxVars, active, start_time, comment, otherVars, buildVars,
                   analyzeVars, fixVars,
                   nFuncs, nQuestions, execIdx, nPassed>>

\* except branch of run_test_stage_phase2: it returns no test
Phase2Fails ==
    /\ pc = "test_generate"
    /\ genIdx < nQuestions
    /\ TestStageEnds(TRUE, nFuncs, 0, 0, 0, <<>>)

\* run_test_stage_phase2 returned; with tests the orchestrator announces
\* phase 3 and run_test_stage_phase3 runs up to its execution loop
Phase2Finish ==
    /\ pc = "test_generate"
    /\ genIdx = nQuestions
    /\ IF nGenerated = 0
       THEN TestStageEnds(TRUE, nFuncs, 0, 0, 0, <<>>)
       ELSE /\ Publish(<<StatusUpdate("test", 80), StatusUpdate("test", 5),
                         StatusUpdate("test", 10)>>)
            /\ pc' = "test_execute"
            /\ UNCHANGED <<ctxVars, active, start_time, comment, otherVars, buildVars, analyzeVars,
                           fixVars, testVars>>

\* "progress": 10 + (i * 70 // len(test_files))
ExecuteProgress(i, g) == 10 + ((i * 70) \div g)

FileStatuses == {"PASSED", "FAILED", "ERROR"}

\* one iteration of the execution loop of run_test_stage_phase3
ExecuteSingleTestFile ==
    /\ pc = "test_execute"
    /\ execIdx < nGenerated
    /\ \E status \in FileStatuses :
          nPassed' = IF status = "PASSED" THEN nPassed + 1 ELSE nPassed
    /\ Publish(<<StatusUpdate("test", ExecuteProgress(execIdx, nGenerated)),
                 Other("test_execution_result", "test", NoProgress)>>)
    /\ execIdx' = execIdx + 1
    /\ UNCHANGED <<pc, ctxVars, active, start_time, comment, otherVars, buildVars,
                   analyzeVars, fixVars,
                   nFuncs, nQuestions, genIdx, nGenerated>>

\* tests_passed = tests_executed if execution_result.success else 0
TestsPassed(executed, success) == IF success THEN executed ELSE 0

\* run_test_stage_phase3 returned after its loop (success = True)
Phase3Finish ==
    /\ pc = "test_execute"
    /\ execIdx = nGenerated
    /\ TestStageEnds(TRUE, nFuncs, nGenerated, nGenerated,
                     TestsPassed(nGenerated, TRUE), <<StatusUpdate("test", 90)>>)

\* except branch of run_test_stage_phase3 (success = False)
Phase3Fails ==
    /\ pc = "test_execute"
    /\ execIdx < nGenerated
    /\ TestStageEnds(TRUE, nFuncs, nGenerated, nGenerated,
                     TestsPassed(nGenerated, FALSE), <<>>)

\* ------------------------------------------------------ end of the pipeline
SuccessOrFailed(flag) == IF flag THEN "success" ELSE "failed"

\* "summary" of the pipeline_complete of the normal path
Summary ==
    [build   |-> SuccessOrFailed(results.build.success),
     analyze |-> SuccessOrFailed(results.analyze.success),
     fix     |-> IF results.fix.success THEN "success" ELSE "skipped",
     test    |-> SuccessOrFailed(results.test.success)]

\* "summary" of the pipeline_complete of the except branch
FailedSummary ==
    [build |-> "failed", analyze |-> "skipped", fix |-> "skipped", test |-> "skipped"]

PipelineComplete(status, summary) ==
    [type |-> "pipeline_complete", stage |-> "", progress |-> NoProgress,
     status |-> status, task |-> FALSE, summary |-> summary]

\* _execute_pipeline after the four stages: stage COMPLETE, pipeline_complete
ExecuteComplete ==
    /\ pc = "complete"
    /\ pc' = "post_results"
    /\ stage' = "complete"
    /\ Publish(<<PipelineComplete("success", Summary)>>)
    /\ UNCHANGED <<errors, results, active, start_time, comment, otherVars, buildVars, analyzeVars,
                   fixVars, testVars>>

\* except branch of _execute_pipeline
ExecuteExcept ==
    /\ pc = "except"
    /\ pc' = "post_results"
    /\ stage' = "failed"
    /\ errors' = errors \o <<"exception">>
    /\ Publish(<<ErrorEvent("pipeline"), PipelineComplete("failed", FailedSummary)>>)
    /\ UNCHANGED <<results, active, start_time, comment, otherVars, buildVars, analyzeVars,
                   fixVars, testVars>>

\* _post_results_to_pr: the comment is posted, or the failure is printed
PostResultsToPr ==
    /\ pc = "post_results"
    /\ pc' = "cleanup"
    /\ \E ok \in BOOLEAN : comment' = IF ok THEN "posted" ELSE "failed"
    /\ UNCHANGED <<otherVars, ctxVars, active, start_time, busVars, buildVars, analyzeVars,
                   fixVars, testVars>>

\* the pipeline_id _execute_pipeline recomputes from context.start_time is
\* the key start_pipeline stored the context under
SameKey == start_time = 0

\* "if pipeline_id in self.active_pipelines: del self.active_pipelines[pipeline_id]"
\* with the recomputed pipeline_id
Cleanup ==
    /\ pc = "cleanup"
    /\ pc' = "done"
    /\ active' = IF SameKey THEN FALSE ELSE active
    /\ UNCHANGED <<start_time, ctxVars, busVars, comment, otherVars, buildVars, analyzeVars,
                   fixVars, testVars>>

\* ------------------------------------------------------------ specification
Next ==
    \/ start_pipeline
    \/ start_pipeline_fails
    \/ RunReadyTasks
    \/ RunBuildStage
    \/ CloneRepositoryFails
    \/ CloneRepositoryOk
    \/ BuildAgentRaises
    \/ InstallDependencies
    \/ InstallReturns
    \/ RunProjectBuild
    \/ BuildCommandReturns
    \/ ProcessFiles
    \/ SkipAnalyzeStage
    \/ RunAnalyzeStage
    \/ AnalyzeStageRaises
    \/ AnalyzePrDiff
    \/ AnalyzeSingleFile
    \/ AnalyzeAgentFails
    \/ AnalyzeFinish
    \/ SkipFixStage
    \/ RunFixStage
    \/ FixStageRaises
    \/ ApplyFixes
    \/ ApplyFixesFails
    \/ ApplySingleFix
    \/ FixFinish
    \/ SkipTestStage
    \/ RunTestStage
    \/ TestStageRaises
    \/ Phase1NoFunctions
    \/ Phase1Fails
    \/ Phase1Discovers
    \/ LmStudioDown
    \/ LmStudioUp
    \/ GenerateSingleTest
    \/ Phase2Fails
    \/ Phase2Finish
    \/ ExecuteSingleTestFile
    \/ Phase3Finish
    \/ Phase3Fails
    \/ ExecuteComplete
    \/ ExecuteExcept
    \/ PostResultsToPr
    \/ Cleanup

Spec == Init /\ [][Next]_vars

\* the event loop keeps running: the pipeline task and the send tasks are
\* scheduled as long as they can take a step
FairSpec == Spec /\ WF_vars(Next)

\* ---------------------------------------------- WebSocketManager operations
Members(list) == {list[i] : i \in DOMAIN list}

\* position of the first occurrence of x in list, 0 when there is none
IndexOf(list, x) ==
    IF x \in Members(list)
    THEN CHOOSE i \in DOMAIN list : list[i] = x /\ \A j \in 1..(i - 1) : list[j] # x
    ELSE 0

\* list.remove(x) for an x that occurs in list
Remove(list, x) ==
    SubSeq(list, 1, IndexOf(list, x) - 1) \o SubSeq(list, IndexOf(list, x) + 1, Len(list))

\* the clean-up loop of _send_to_connections: remove(dead_conn) for every
\* dead connection, a ValueError being ignored
RECURSIVE RemoveDead(_, _)
RemoveDead(list, dead) ==
    IF dead = {} THEN list
    ELSE LET d == CHOOSE x \in dead : TRUE
         IN RemoveDead(IF d \in Members(list) THEN Remove(list, d) ELSE list,
                       dead \ {d})

\* WebSocketManager.get_connection_stats
get_connection_stats == [t \in DOMAIN connections |-> Len(connections[t])]

\* the sockets are taken into use in order
NextSocket == Cardinality({s \in Sockets : sockState[s] # "unused"}) + 1

\* WebSocketManager.connect, called by a /ws endpoint for a new socket
connect ==
    /\ NextSocket \in Sockets
    /\ \E t \in Topics :
          /\ sockTopic' = [sockTopic EXCEPT ![NextSocket] = t]
          /\ connections' =
                IF t \in DOMAIN connections
                THEN [connections EXCEPT ![t] = Append(@, NextSocket)]
                ELSE connections @@ (t :> <<NextSocket>>)
    /\ sockState' = [sockState EXCEPT ![NextSocket] = "open"]
    /\ UNCHANGED <<outsideBus, inbox, sending, publications, lastPub, evicted>>

\* the client of a socket goes away: sends to it raise from now on and
\* receive_text raises WebSocketDisconnect in its endpoint
PeerCloses ==
    \E s \in Sockets :
       /\ sockState[s] = "open"
       /\ sockState' = [sockState EXCEPT ![s] = "closed"]
       /\ sending' = [sending EXCEPT !.due = @ \ {s}]
       /\ UNCHANGED <<outsideBus, connections, sockTopic, inbox,
                      publications, lastPub, evicted>>

\* the topic whose list the send_message call in progress iterates over
SendingTopic ==
    IF sending.phase = "own" THEN sending.pipeline_id ELSE AllPipelines

\* WebSocketManager.disconnect, called in the finally of the endpoint
disconnect ==
    \E s \in Sockets :
       LET t == sockTopic[s]
           listed == t \in DOMAIN connections /\ s \in Members(connections[t])
           rest == Remove(connections[t], s)
           iterated == sending.phase # "idle" /\ SendingTopic = t /\ ~sending.detached
       IN /\ sockState[s] = "closed"
          /\ sockState' = [sockState EXCEPT ![s] = "gone"]
          /\ connections' =
                IF ~listed THEN connections
                ELSE IF rest = <<>>
                     THEN [u \in DOMAIN connections \ {t} |-> connections[u]]
                     ELSE [connections EXCEPT ![t] = rest]
          /\ sending' =
                IF sending.phase = "idle" THEN sending
                ELSE [sending EXCEPT
                        !.due = @ \ {s},
                        !.disturbed = TRUE,
                        !.detached = @ \/ (iterated /\ listed /\ rest = <<>>)]
          /\ UNCHANGED <<outsideBus, sockTopic, inbox, publications, lastPub,
                       evicted>>

\* the sockets of a list to which a send succeeds
Healthy(list) == {s \in Members(list) : sockState[s] = "open"}

\* _send_to_connections starts on a non-empty list: the first send_text
StartLoop(call, phase, list) ==
    [call EXCEPT !.phase = phase, !.target = list[1], !.next = 2, !.dead = {},
                 !.detached = FALSE, !.due = Healthy(list)]

\* send_message from "if 'all_pipelines' in self.connections" on, given the
\* connections map conns: the first send_text of the second loop, or the return
StartAllPipelines(call, conns) ==
    IF AllPipelines \in DOMAIN conns /\ conns[AllPipelines] # <<>>
    THEN StartLoop(call, "all", conns[AllPipelines])
    ELSE [call EXCEPT !.phase = "done"]

\* the send_message call has returned
Returns(call) ==
    /\ sending' = NoSend
    /\ lastPub' = [event |-> call.event, pipeline_id |-> call.pipeline_id,
                   missed |-> call.missed, failed |-> call.failed,
                   disturbed |-> call.disturbed]
    /\ evicted' = evicted \cup call.failed

\* the call goes on with its next send_text, or returns
Continue(call) ==
    IF call.phase = "done"
    THEN Returns(call)
    ELSE sending' = call /\ UNCHANGED <<lastPub, evicted>>

\* WebSocketManager.send_message up to its first send_text
send_message ==
    /\ sending.phase = "idle"
    /\ publications < MaxPublications
    /\ publications' = publications + 1
    /\ \E id \in PipelineIds :
          LET call == [NoSend EXCEPT !.pipeline_id = id, !.event = publications + 1]
          IN Continue(IF id \in DOMAIN connections /\ connections[id] # <<>>
                      THEN StartLoop(call, "own", connections[id])
                      ELSE StartAllPipelines(call, connections))
    /\ UNCHANGED <<outsideBus, connections, sockState, sockTopic, inbox>>

\* the message a socket receives; published_to records the topic of the
\* call, pipeline_id is the field send_message injects for "all_pipelines"
Message(call) ==
    [event |-> call.event, published_to |-> call.pipeline_id,
     pipeline_id |-> IF call.phase = "all" THEN call.pipeline_id ELSE "none"]

\* a send_text of _send_to_connections returns or raises; the loop goes on
\* with the next element of the list, or ends with the clean-up of the dead
\* connections, after which send_message goes on
SendToConnection ==
    /\ sending.phase \in {"own", "all"}
    /\ LET ok   == sockState[sending.target] = "open"
           list == IF sending.detached THEN <<>> ELSE connections[SendingTopic]
           dead == IF ok THEN sending.dead ELSE sending.dead \cup {sending.target}
           due  == sending.due \ {sending.target}
           swept == IF sending.detached THEN connections
                    ELSE [connections EXCEPT ![SendingTopic] = RemoveDead(@, dead)]
           over == [sending EXCEPT !.missed = @ \cup due, !.failed = @ \cup dead,
                                   !.due = {}, !.dead = {}]
       IN /\ inbox' = IF ok THEN [inbox EXCEPT ![sending.target] = @ \cup {Message(sending)}]
                      ELSE inbox
          /\ IF sending.next <= Len(list)
             THEN /\ connections' = connections
                  /\ Continue([sending EXCEPT !.target = list[sending.next],
                                              !.next = @ + 1, !.dead = dead,
                                              !.due = due])
             ELSE /\ connections' = swept
                  /\ Continue(IF sending.phase = "own"
                              THEN StartAllPipelines(over, swept)
                              ELSE [over EXCEPT !.phase = "done"])
    /\ UNCHANGED <<outsideBus, sockState, sockTopic, publications>>

BusNext ==
    \/ connect
    \/ PeerCloses
    \/ disconnect
    \/ send_message
    \/ SendToConnection

BusSpec == Init /\ [][BusNext]_vars

\* -------------------------------------------------------- ingress operations
\* time passes
Tick ==
    /\ now < MaxClock
    /\ now' = now + 1
    /\ UNCHANGED <<outsideIngress, active_pipelines, runs, starts, commits,
                   served, lastReq, response>>

\* the mapping m without key k
Without(m, k) == [x \in DOMAIN m \ {k} |-> m[x]]

\* the mapping m with m[k] = v
With(m, k, v) == [x \in DOMAIN m \cup {k} |-> IF x = k THEN v ELSE m[x]]

\* f"{repo_name}_{pr_number}_{int(t)}" for the one repository
PipelineId(pr, t) == <<pr, t>>

\* number of parameters of start_pipeline after self
StartPipelineArity == 2

\* MultiAgentPipeline.start_pipeline called with nargs arguments at clock
\* reading now; found: get_pull_request returned the PR; elapsed: seconds
\* the clock advanced during the two GitHub calls.  Gives the call's outcome.
StartPipelineCall(pr, nargs, found, elapsed) ==
    IF nargs # StartPipelineArity
    THEN [raised |-> TRUE, pipeline_id |-> <<>>, start_time |-> now]
    ELSE IF ~found
         THEN [raised |-> TRUE, pipeline_id |-> <<>>, start_time |-> now + elapsed]
         ELSE [raised |-> FALSE, pipeline_id |-> PipelineId(pr, now),
               start_time |-> now + elapsed]

\* the effect of a start_pipeline call with that outcome on the orchestrator
StartPipelineEffect(pr, call) ==
    IF call.raised
    THEN /\ now' = call.start_time
         /\ UNCHANGED <<active_pipelines, runs, starts>>
    ELSE /\ now' = call.start_time
         /\ runs' = Append(runs, [pr |-> pr, key |-> call.pipeline_id,
                                  start_time |-> call.start_time,
                                  pc |-> "scheduled", ctx |-> 0,
                                  topics |-> {call.pipeline_id}])
         /\ active_pipelines' = With(active_pipelines, call.pipeline_id, Len(runs) + 1)
         /\ starts' = starts \cup {call.pipeline_id}

\* pipeline.is_ai_generated_commit: the head commit's message has a marker
is_ai_generated_commit(message) ==
    \E i \in DOMAIN message : message[i] \in ai_markers

\* variant: the handler never consults the recursion filter
FilterApplies_Never(req) == FALSE

\* github_webhook applies the recursion filter to this payload
FilterApplies(req) == req.action = "synchronize" /\ req.sha

\* the payloads GitHub delivers to /webhook/github
WebhookPayloads ==
    {[NoRequest EXCEPT !.endpoint = "webhook"]}
    \cup {[NoRequest EXCEPT !.endpoint = "webhook", !.pull_request = TRUE,
                            !.action = a, !.pr = n] :
             a \in {"opened", "closed", "synchronize"}, n \in PRs}
    \cup {[NoRequest EXCEPT !.endpoint = "webhook", !.pull_request = TRUE,
                            !.action = "synchronize", !.pr = n,
                            !.sha = TRUE, !.message = m] :
             n \in PRs, m \in DevMessages \cup commits}

\* the same payload as the request handled last
Redelivery(req) == [req EXCEPT !.again = FALSE] = [lastReq EXCEPT !.again = FALSE]

\* POST /webhook/github
github_webhook ==
    /\ served < MaxRequests
    /\ served' = served + 1
    /\ \E req \in WebhookPayloads, found \in BOOLEAN, elapsed \in 0..MaxElapsed :
          /\ now + elapsed <= MaxClock
          /\ lastReq' = [req EXCEPT !.again = Redelivery(req)]
          /\ IF ~req.pull_request \/ req.action \notin {"opened", "synchronize"}
             THEN /\ response' = [NoResponse EXCEPT !.status = 200]
                  /\ UNCHANGED <<now, active_pipelines, runs, starts>>
             ELSE IF FilterApplies(req) /\ is_ai_generated_commit(req.message)
             THEN /\ response' = [NoResponse EXCEPT !.status = 200,
                                                    !.reason = "ai_generated_commit"]
                  /\ UNCHANGED <<now, active_pipelines, runs, starts>>
             ELSE LET call == StartPipelineCall(req.pr, 3, found, elapsed)
                  IN /\ StartPipelineEffect(req.pr, call)
                     /\ response' =
                           IF call.raised
                           THEN [NoResponse EXCEPT !.status = 500]
                           ELSE [NoResponse EXCEPT !.status = 200,
                                                   !.pipeline_id = call.pipeline_id,
                                                   !.pipeline_status = "starting"]
    /\ UNCHANGED <<outsideIngress, commits>>

\* the bodies a client posts to /agents/trigger: pr 0 is a body without
\* pr_number, repo_name says whether the body has a repo_name
TriggerPayloads ==
    {[NoRequest EXCEPT !.endpoint = "trigger", !.pr = n, !.repo_name = r] :
        n \in {0} \cup PRs, r \in BOOLEAN}

\* if not pr_number or not repo_name
Incomplete(req) == req.pr = 0 \/ ~req.repo_name

\* except Exception as e: raise HTTPException(status_code=500, ...): the
\* status the client gets for an exception raised in the try block of
\* trigger_agents_manually; an HTTPException with a status is an Exception
TriggerExcept(status) == 500

\* POST /agents/trigger
trigger_agents_manually ==
    /\ served < MaxRequests
    /\ served' = served + 1
    /\ \E req \in TriggerPayloads, found \in BOOLEAN, elapsed \in 0..MaxElapsed :
          LET call == StartPipelineCall(req.pr, 2, found, elapsed)
          IN /\ lastReq' = [req EXCEPT !.again = Redelivery(req)]
             /\ IF Incomplete(req)
                THEN /\ response' = [NoResponse EXCEPT !.status = TriggerExcept(400)]
                     /\ UNCHANGED <<now, active_pipelines, runs, starts>>
                ELSE /\ Len(runs) < MaxRuns
                     /\ now + elapsed <= MaxClock
                     /\ StartPipelineEffect(req.pr, call)
                     /\ response' =
                           IF call.raised
                           THEN [NoResponse EXCEPT !.status = TriggerExcept(500)]
                           ELSE [NoResponse EXCEPT !.status = 200,
                                                   !.pipeline_id = call.pipeline_id]
    /\ UNCHANGED <<outsideIngress, commits>>

\* the pipeline_id _execute_pipeline and the stage methods compute from the
\* context c for the events they publish
EventTopic(c) == PipelineId(runs[c].pr, runs[c].start_time)

\* the task of _execute_pipeline starts: the context is looked up under the
\* id start_pipeline passed; a KeyError ends the task.  With the context
\* the task publishes the stage_start of the build stage, and all its later
\* events, under the id computed from the context
ExecuteBegins ==
    \E r \in DOMAIN runs :
       /\ runs[r].pc = "scheduled"
       /\ runs' = [runs EXCEPT ![r] =
                      IF runs[r].key \in DOMAIN active_pipelines
                      THEN [@ EXCEPT !.pc = "running", !.ctx = active_pipelines[runs[r].key],
                                     !.topics = @ \cup {EventTopic(active_pipelines[runs[r].key])}]
                      ELSE [@ EXCEPT !.pc = "crashed"]]
       /\ UNCHANGED <<outsideIngress, now, active_pipelines, starts, commits,
                      served, lastReq, response>>

\* variant: the commit message is the bare fix summary
CommitMessage_Plain(summary) == summary

\* the message of the commit _apply_single_fix writes for a fix summary
CommitMessage(summary) == <<"<robot> AI Fix:">> \o summary \o <<"[skip-pipeline]">>

\* the Fix agent of a running pipeline commits a fixed file
FixAgentCommits ==
    /\ \E r \in DOMAIN runs : runs[r].pc = "running"
    /\ \E summary \in Summaries : commits' = commits \cup {CommitMessage(summary)}
    /\ UNCHANGED <<outsideIngress, now, active_pipelines, runs, starts,
                   served, lastReq, response>>

\* the task of _execute_pipeline ends: the id is the one recomputed from the
\* context, and the record under that id is deleted
ExecuteEnds ==
    \E r \in DOMAIN runs :
       LET c == runs[r].ctx
           id == EventTopic(c)
       IN /\ runs[r].pc = "running"
          /\ runs' = [runs EXCEPT ![r].pc = "done"]
          /\ active_pipelines' =
                IF id \in DOMAIN active_pipelines
                THEN Without(active_pipelines, id)
                ELSE active_pipelines
          /\ UNCHANGED <<outsideIngress, now, starts, commits, served, lastReq,
                         response>>

IngressNext ==
    \/ Tick
    \/ github_webhook
    \/ trigger_agents_manually
    \/ ExecuteBegins
    \/ FixAgentCommits
    \/ ExecuteEnds

IngressSpec == Init /\ [][IngressNext]_vars

\* ------------------------------------- TerminalWebSocketManager operations
\* _send_to_session on the connections entry conn while the sockets are in
\* states socks: every listed socket is sent the message, and those whose
\* send raised are removed from the list; the entry itself stays
SendToSession(conn, socks) ==
    IF ~conn.present
    THEN conn
    ELSE [conn EXCEPT !.list = SelectSeq(@, LAMBDA k : socks[k] = "open")]

\* TerminalSession.terminate
Terminate(session) ==
    IF session.is_running
    THEN [session EXCEPT !.signalled = TRUE, !.is_running = FALSE]
    ELSE session

\* asyncio.Task.cancel: a task that has not finished gets CancelledError at
\* the await it is suspended in
Cancel(task) ==
    IF task.pc \in {"created", "loop"} THEN [task EXCEPT !.pc = "cancelled"] ELSE task

\* the terminal sockets are taken into use in order
NextTermSocket == Cardinality({k \in TermSockets : termSockState[k] # "unused"}) + 1

\* TerminalWebSocketManager.connect, called by /ws/terminal/{session_id}
terminal_connect ==
    /\ NextTermSocket \in TermSockets
    /\ termSockState' = [termSockState EXCEPT ![NextTermSocket] = "open"]
    /\ termConnections' =
          SendToSession([present |-> TRUE,
                         list |-> Append(termConnections.list, NextTermSocket)],
                        termSockState')
    /\ UNCHANGED <<outsideTerminal, termSession, sess, streamingTask, tasks, startCall,
                   terminateCall, lines, termLog>>

\* the client of a terminal socket goes away
TermPeerCloses ==
    \E k \in TermSockets :
       /\ termSockState[k] = "open"
       /\ termSockState' = [termSockState EXCEPT ![k] = "closed"]
       /\ UNCHANGED <<outsideTerminal, termConnections, termSession, sess, streamingTask,
                      tasks, startCall, terminateCall, lines, termLog>>

\* TerminalWebSocketManager.disconnect, called in the finally of the endpoint
terminal_disconnect ==
    \E k \in TermSockets :
       LET listed == termConnections.present /\ k \in Members(termConnections.list)
           rest == Remove(termConnections.list, k)
           last == listed /\ rest = <<>>
       IN /\ termSockState[k] = "closed"
          /\ termSockState' = [termSockState EXCEPT ![k] = "gone"]
          /\ termConnections' =
                IF ~listed THEN termConnections
                ELSE IF last THEN NoList
                ELSE [termConnections EXCEPT !.list = rest]
          /\ sess' = IF last /\ termSession # 0
                     THEN [sess EXCEPT ![termSession] = Terminate(@)]
                     ELSE sess
          /\ termSession' = IF last THEN 0 ELSE termSession
          /\ tasks' = IF last /\ streamingTask # 0
                      THEN [tasks EXCEPT ![streamingTask] = Cancel(@)]
                      ELSE tasks
          /\ streamingTask' = IF last THEN 0 ELSE streamingTask
          /\ UNCHANGED <<outsideTerminal, startCall, terminateCall, lines, termLog>>

\* start_terminal_session up to the end of its await: the session is
\* created, registered and terminal_start is published
StartRegisters ==
    /\ termSession = 0
    /\ startCall = 0
    /\ Len(sess) < MaxSessions
    /\ sess' = Append(sess, NewSession)
    /\ termSession' = Len(sess) + 1
    /\ termLog' = Append(termLog, [NoEvents EXCEPT !.terminal_start = 1])
    /\ termConnections' = SendToSession(termConnections, termSockState)

\* start_terminal_session without suspension in its await
start_terminal_session ==
    /\ StartRegisters
    /\ tasks' = Append(tasks, [pc |-> "created", session |-> 0])
    /\ streamingTask' = Len(tasks) + 1
    /\ UNCHANGED <<outsideTerminal, termSockState, startCall, terminateCall, lines>>

\* start_terminal_session is suspended in a send_text of terminal_start
StartSuspends ==
    /\ termConnections.present /\ termConnections.list # <<>>
    /\ StartRegisters
    /\ startCall' = Len(sess) + 1
    /\ UNCHANGED <<outsideTerminal, termSockState, streamingTask, tasks, terminateCall,
                   lines>>

\* the suspended start_terminal_session goes on: the streaming task is
\* created and registered
StartResumes ==
    /\ startCall # 0
    /\ startCall' = 0
    /\ tasks' = Append(tasks, [pc |-> "created", session |-> 0])
    /\ streamingTask' = Len(tasks) + 1
    /\ UNCHANGED <<outsideTerminal, termConnections, termSockState, termSession, sess,
                   terminateCall, lines, termLog>>

\* terminate_session from session.terminate() on, with the events log; a
\* session that is no longer registered makes sessions[session_id] raise
TerminateCleans(log) ==
    IF termSession = 0
    THEN /\ termLog' = log
         /\ UNCHANGED <<sess, tasks, streamingTask, termSession>>
    ELSE /\ termLog' = [log EXCEPT ![termSession].terminated = TRUE]
         /\ sess' = [sess EXCEPT ![termSession] = Terminate(@)]
         /\ tasks' = IF streamingTask # 0
                     THEN [tasks EXCEPT ![streamingTask] = Cancel(@)]
                     ELSE tasks
         /\ streamingTask' = 0
         /\ termSession' = 0

\* the events log after terminate_session published terminal_terminating
TerminatingPublished ==
    [termLog EXCEPT ![termSession].terminal_terminating = @ + 1]

\* terminate_session without suspension in its await
terminate_session ==
    /\ termSession # 0
    /\ ~terminateCall
    /\ termConnections' = SendToSession(termConnections, termSockState)
    /\ TerminateCleans(TerminatingPublished)
    /\ UNCHANGED <<outsideTerminal, termSockState, startCall, terminateCall, lines>>

\* terminate_session is suspended in a send_text of terminal_terminating
TerminateSuspends ==
    /\ termSession # 0
    /\ ~terminateCall
    /\ termConnections.present /\ termConnections.list # <<>>
    /\ terminateCall' = TRUE
    /\ termLog' = TerminatingPublished
    /\ termConnections' = SendToSession(termConnections, termSockState)
    /\ UNCHANGED <<outsideTerminal, termSockState, termSession, sess, streamingTask,
                   tasks, startCall, lines>>

\* the suspended terminate_session goes on
TerminateResumes ==
    /\ terminateCall
    /\ terminateCall' = FALSE
    /\ TerminateCleans(termLog)
    /\ UNCHANGED <<outsideTerminal, termConnections, termSockState, startCall, lines>>

\* _capture_output: the child process writes a line to stdout or stderr and
\* the capture thread of that pipe puts it on its queue
ChildWrites ==
    /\ lines < MaxLines
    /\ lines' = lines + 1
    /\ \E i \in DOMAIN sess :
          /\ ~sess[i].exited
          /\ \/ sess' = [sess EXCEPT ![i].output_queue = Append(@, lines + 1)]
             \/ sess' = [sess EXCEPT ![i].error_queue = Append(@, lines + 1)]
    /\ UNCHANGED <<outsideTerminal, termConnections, termSockState, termSession,
                   streamingTask, tasks, startCall, terminateCall, termLog>>

\* _monitor_process: the child process has ended
ProcessExits ==
    \E i \in DOMAIN sess :
       /\ ~sess[i].exited
       /\ sess' = [sess EXCEPT ![i].exited = TRUE, ![i].is_running = FALSE,
                               ![i].output_queue = Append(@, Completed)]
       /\ UNCHANGED <<outsideTerminal, termConnections, termSockState, termSession,
                      streamingTask, tasks, startCall, terminateCall, lines, termLog>>

\* _stream_session_output starts: the session is looked up under the id
StreamBegins ==
    \E k \in DOMAIN tasks :
       /\ tasks[k].pc = "created"
       /\ tasks' = [tasks EXCEPT ![k] =
                       IF termSession = 0
                       THEN [@ EXCEPT !.pc = "returned"]
                       ELSE [@ EXCEPT !.pc = "loop", !.session = termSession]]
       /\ UNCHANGED <<outsideTerminal, termConnections, termSockState, termSession, sess,
                      streamingTask, startCall, terminateCall, lines, termLog>>

\* the lines of a queue entry that the child process wrote
ChildLines(entry) == IF entry = Completed THEN <<>> ELSE <<entry>>

\* one round of the loop of _stream_session_output that has something to
\* send: the next entry of the output queue, then the next of the error queue
StreamRound ==
    \E k \in DOMAIN tasks :
       LET i == tasks[k].session
           out == IF sess[i].output_queue = <<>> THEN <<>>
                  ELSE ChildLines(Head(sess[i].output_queue))
           err == IF sess[i].error_queue = <<>> THEN <<>>
                  ELSE <<Head(sess[i].error_queue)>>
       IN /\ tasks[k].pc = "loop"
          /\ sess[i].output_queue # <<>> \/ sess[i].error_queue # <<>>
          /\ sess' = [sess EXCEPT
                        ![i].output_queue = IF @ = <<>> THEN @ ELSE Tail(@),
                        ![i].error_queue = IF @ = <<>> THEN @ ELSE Tail(@)]
          /\ termLog' = [termLog EXCEPT ![i].terminal_output = @ \o out \o err]
          /\ termConnections' = SendToSession(termConnections, termSockState)
          /\ UNCHANGED <<outsideTerminal, termSockState, termSession, streamingTask,
                         tasks, startCall, terminateCall, lines>>

\* the loop of _stream_session_output is over: terminal_end is published
StreamEnds ==
    \E k \in DOMAIN tasks :
       LET i == tasks[k].session
       IN /\ tasks[k].pc = "loop"
          /\ ~sess[i].is_running
          /\ sess[i].output_queue = <<>> /\ sess[i].error_queue = <<>>
          /\ tasks' = [tasks EXCEPT ![k].pc = "done"]
          /\ termLog' = [termLog EXCEPT ![i].terminal_end = @ + 1]
          /\ termConnections' = SendToSession(termConnections, termSockState)
          /\ UNCHANGED <<outsideTerminal, termSockState, termSession, sess,
                         streamingTask, startCall, terminateCall, lines>>

TerminalNext ==
    \/ terminal_connect
    \/ TermPeerCloses
    \/ terminal_disconnect
    \/ start_terminal_session
    \/ StartSuspends
    \/ StartResumes
    \/ terminate_session
    \/ TerminateSuspends
    \/ TerminateResumes
    \/ ChildWrites
    \/ ProcessExits
    \/ StreamBegins
    \/ StreamRound
    \/ StreamEnds

TerminalSpec == Init /\ [][TerminalNext]_vars

\* ---------------------------------------------------- Test agent operations
\* the definitions a parsed file can hold: a def or an async def named f or
\* g that spans the lines start_line..end_line of a file of n lines
Defs(n) ==
    [kind : {"FunctionDef", "AsyncFunctionDef"}, name : {"f", "g"},
     start_line : 1..n, end_line : 1..n]

\* the nodes of a parsed file of n lines in the order of ast.walk: every
\* definition ends at or after its first line and starts on a line of its own
Trees(n) ==
    {<<>>}
    \cup {<<d>> : d \in {x \in Defs(n) : x.start_line <= x.end_line}}
    \cup {<<d1, d2>> : d1, d2 \in {x \in Defs(n) : x.start_line <= x.end_line}}

WellFormed(tree) ==
    \A i, j \in DOMAIN tree : i # j => tree[i].start_line # tree[j].start_line

\* the ChangedFunction built for a node
ChangedFunction(filename, node) ==
    [filename |-> filename, function_name |-> node.name,
     start_line |-> node.start_line, end_line |-> node.end_line]

\* a changed line falls within the function
Intersects(node, changed_lines) ==
    changed_lines \cap (node.start_line..node.end_line) # {}

\* _extract_functions_from_file
ExtractFunctions(file, changed_lines) ==
    LET hit == SelectSeq(file.defs,
                         LAMBDA node : node.kind = "FunctionDef"
                                        /\ Intersects(node, changed_lines))
    IN [i \in DOMAIN hit |-> ChangedFunction(file.filename, hit[i])]

\* the changed lines _discover_changed_functions keeps for a file
ValidChangedLines(file) ==
    {l \in {x \in file.added_lines : x > 0} : 1 <= l /\ l <= file.lines}

\* _discover_changed_functions for one Python file whose content was fetched
DiscoverChangedFunctions(file) ==
    IF ValidChangedLines(file) = {}
    THEN <<>>
    ELSE ExtractFunctions(file, ValidChangedLines(file))

\* phase 1 discovers the changed functions of a file
DiscoverFunctions ==
    /\ testPhase = "discover"
    /\ \E n \in 1..MaxFileLines :
       \E tree \in Trees(n) :
       \E added \in SUBSET (0..(n + 1)) :
          /\ Len(tree) <= MaxDefs
          /\ WellFormed(tree)
          /\ source_file' = [filename |-> "u.py", lines |-> n, defs |-> tree,
                             added_lines |-> added]
          /\ changed_functions' = DiscoverChangedFunctions(source_file')
    /\ testPhase' = "discovered"
    /\ UNCHANGED <<outsideTestAgent, function_questions, generated_tests, requests,
                   testEvents>>

\* the (filename, function_name) pairs the answer of the model can name
ReturnedPairs == {<<"u.py", "f">>, <<"u.py", "g">>, <<"x.py", "f">>}

\* the answers to the batched request: lists of at most MaxReturned entries
Answers ==
    UNION {[1..k -> ReturnedPairs] : k \in 0..MaxReturned}

\* index of the first function with that pair, 0 when there is none
MatchingFunction(functions, pair) ==
    IF \E i \in DOMAIN functions :
          functions[i].filename = pair[1] /\ functions[i].function_name = pair[2]
    THEN CHOOSE i \in DOMAIN functions :
            /\ functions[i].filename = pair[1] /\ functions[i].function_name = pair[2]
            /\ \A j \in 1..(i - 1) :
                  ~(functions[j].filename = pair[1]
                    /\ functions[j].function_name = pair[2])
    ELSE 0

\* the matching loop of _generate_function_questions over the answer
RECURSIVE MatchQuestions(_, _)
MatchQuestions(functions, answer) ==
    IF answer = <<>> THEN <<>>
    ELSE LET m == MatchingFunction(functions, Head(answer))
         IN (IF m # 0
             THEN <<[function |-> m, filename |-> Head(answer)[1],
                     function_name |-> Head(answer)[2]]>>
             ELSE <<>>)
            \o MatchQuestions(functions, Tail(answer))

\* _generate_function_questions; the discovery inputs are no longer needed
GenerateFunctionQuestions ==
    /\ testPhase = "discovered"
    /\ \E answer \in Answers :
          function_questions' =
             IF changed_functions = <<>> THEN <<>>
             ELSE MatchQuestions(changed_functions, answer)
    /\ requests' = [q \in DOMAIN function_questions' |-> 0]
    /\ source_file' = NoFile
    /\ testPhase' = "questions"
    /\ UNCHANGED <<outsideTestAgent, changed_functions, generated_tests, testEvents>>

\* run_test_stage_phase2 without questions, or with LM Studio unreachable
Phase2ReturnsNothing ==
    /\ testPhase = "questions"
    /\ testPhase' = "returned"
    /\ UNCHANGED <<outsideTestAgent, source_file, changed_functions, function_questions,
                   generated_tests, requests, testEvents>>

\* run_test_stage_phase2 reaches its loop: _test_lm_studio_connection is True
Phase2Starts ==
    /\ testPhase = "questions"
    /\ function_questions # <<>>
    /\ testPhase' = "generate"
    /\ UNCHANGED <<outsideTestAgent, source_file, changed_functions, function_questions,
                   generated_tests, requests, testEvents>>

\* the question the loop of run_test_stage_phase2 handles next
NextQuestion == Len(testEvents) \div 2 + 1

\* one iteration of the loop of run_test_stage_phase2: test_generation_start,
\* one request of _generate_single_test, then test_generated or
\* test_generation_failed
GenerateOneTest ==
    /\ testPhase = "generate"
    /\ NextQuestion <= Len(function_questions)
    /\ requests' = [requests EXCEPT ![NextQuestion] = @ + 1]
    /\ \E ok \in BOOLEAN :
          /\ generated_tests' =
                IF ok THEN Append(generated_tests, NextQuestion) ELSE generated_tests
          /\ testEvents' = testEvents \o
                <<[type |-> "test_generation_start", question |-> NextQuestion],
                  [type |-> IF ok THEN "test_generated" ELSE "test_generation_failed",
                   question |-> NextQuestion]>>
    /\ UNCHANGED <<outsideTestAgent, testPhase, source_file, changed_functions,
                   function_questions>>

\* run_test_stage_phase2 returns generated_tests after its loop
Phase2Returns ==
    /\ testPhase = "generate"
    /\ NextQuestion > Len(function_questions)
    /\ testPhase' = "returned"
    /\ UNCHANGED <<outsideTestAgent, source_file, changed_functions, function_questions,
                   generated_tests, requests, testEvents>>

TestAgentNext ==
    \/ DiscoverFunctions
    \/ GenerateFunctionQuestions
    \/ Phase2ReturnsNothing
    \/ Phase2Starts
    \/ GenerateOneTest
    \/ Phase2Returns

TestAgentSpec == Init /\ [][TestAgentNext]_vars

\* -------------------------------------------------------------- Fix agent
\* A text is the sequence of its lines; a line is its leading spaces and the
\* code after them. The codes "a" and "b" are non-empty, hold no space and
\* neither is part of the other.
LineKinds == [indent : 0..MaxIndent, body : {"a", "b"}]

SeqsUpTo(S, n) == UNION {[1..k -> S] : k \in 1..n}

\* the contents of the file at GitHub
Contents == SeqsUpTo(LineKinds, MaxContentLines)

\* the values of old_code and of new_code in a fix proposal
Snippets == SeqsUpTo(LineKinds, MaxSnippetLines)

\* the blob id GitHub gives a content: its hash, which names the content
BlobSha(content) == content

\* old_code starts in line i of content: its first line ends line i, the
\* lines after it are whole lines
OccursAt(content, old_code, i) ==
    /\ i + Len(old_code) - 1 <= Len(content)
    /\ content[i].body = old_code[1].body
    /\ old_code[1].indent <= content[i].indent
    /\ \A j \in 2..Len(old_code) : content[i + j - 1] = old_code[j]

\* old_code in content
Contains(content, old_code) ==
    \E i \in 1..Len(content) : OccursAt(content, old_code, i)

\* new_code put where old_code started after extra leading spaces
Placed(new_code, extra) ==
    [j \in 1..Len(new_code) |->
        IF j = 1 THEN [new_code[1] EXCEPT !.indent = @ + extra] ELSE new_code[j]]

RECURSIVE ReplaceFrom(_, _, _, _)
\* content.replace(old_code, new_code) from line i on: every occurrence,
\* left to right, without overlap
ReplaceFrom(content, old_code, new_code, i) ==
    IF i > Len(content)
    THEN <<>>
    ELSE IF OccursAt(content, old_code, i)
         THEN Placed(new_code, content[i].indent - old_code[1].indent)
              \o ReplaceFrom(content, old_code, new_code, i + Len(old_code))
         ELSE <<content[i]>> \o ReplaceFrom(content, old_code, new_code, i + 1)

\* match_score of old_lines against the lines from line i on:
\* old_line.strip() in lines[i + j].strip()
MatchScore(content, old_code, i) ==
    Cardinality({j \in 1..Len(old_code) : old_code[j].body = content[i + j - 1].body})

\* the positions whose match_score reaches the 80% threshold
GoodMatches(content, old_code) ==
    {i \in 1..(Len(content) - Len(old_code) + 1) :
        MatchScore(content, old_code, i) * 10 >= Len(old_code) * 8}

Min(S) == CHOOSE x \in S : \A y \in S : x <= y

\* _apply_fix_to_content
ApplyFixToContent(content, old_code, new_code) ==
    IF Contains(content, old_code)
    THEN ReplaceFrom(content, old_code, new_code, 1)
    ELSE IF GoodMatches(content, old_code) # {}
         THEN LET i == Min(GoodMatches(content, old_code))
              IN  SubSeq(content, 1, i - 1) \o new_code
                  \o SubSeq(content, i + Len(old_code), Len(content))
         ELSE content

\* the sha _apply_single_fix passes to update_file
WriteSha_Current(read) == BlobSha(repoFile)

WriteSha(read) == read.sha

\* a fix attempt that has not returned yet: no proposal, no write
NewAttempt ==
    [proposed |-> FALSE, identical |-> FALSE, wrote |-> FALSE, rejected |-> FALSE,
     returned |-> FALSE, success |-> FALSE]

\* the attempt being made
Attempt == Len(fixLog)

\* FixResult(success=False, ...) returned: the loop appends to errors
AttemptFails(entry) ==
    /\ fixLog' = [fixLog EXCEPT ![Attempt] = [entry EXCEPT !.returned = TRUE]]
    /\ fix_errors' = Append(fix_errors, Attempt)
    /\ UNCHANGED <<fixes_applied, commits_made>>

\* apply_fixes found fixable issues of one file and starts its loop
FixLoopBegins ==
    /\ fixPos = "idle"
    /\ \E n \in 1..MaxFixable : fixable_issues' = n
    /\ \E content \in Contents : repoFile' = content
    /\ fixPos' = "loop"
    /\ UNCHANGED <<outsideFixAgent, file_content, fixLog, update_sha, fixes_applied,
                   commits_made, fix_errors, pushes>>

\* _apply_single_fix gets the file and awaits the MCP context and Gemini
GetFileContent ==
    /\ fixPos = "loop"
    /\ Len(fixLog) < fixable_issues
    /\ file_content' = [sha |-> BlobSha(repoFile), content |-> repoFile]
    /\ fixLog' = Append(fixLog, NewAttempt)
    /\ fixPos' = "generating"
    /\ UNCHANGED <<outsideFixAgent, fixable_issues, repoFile, update_sha, fixes_applied,
                   commits_made, fix_errors, pushes>>

\* get_file_content returns None: the attempt fails before any proposal
GetFileContentFails ==
    /\ fixPos = "loop"
    /\ Len(fixLog) < fixable_issues
    /\ file_content' = NoRead
    /\ fixLog' = Append(fixLog, [NewAttempt EXCEPT !.returned = TRUE])
    /\ fix_errors' = Append(fix_errors, Len(fixLog) + 1)
    /\ UNCHANGED <<outsideFixAgent, fixPos, fixable_issues, repoFile, update_sha,
                   fixes_applied, commits_made, pushes>>

\* someone else pushes a change of the file to the branch
OtherPush ==
    /\ fixPos = "generating"
    /\ pushes < MaxPushes
    /\ \E content \in Contents \ {repoFile} : repoFile' = content
    /\ pushes' = pushes + 1
    /\ UNCHANGED <<outsideFixAgent, fixPos, fixable_issues, file_content, fixLog,
                   update_sha, fixes_applied, commits_made, fix_errors>>

\* _generate_fix_with_gemini returns None
GenerateFixFails ==
    /\ fixPos = "generating"
    /\ AttemptFails(fixLog[Attempt])
    /\ fixPos' = "loop"
    /\ UNCHANGED <<outsideFixAgent, fixable_issues, repoFile, file_content, update_sha,
                   pushes>>

\* fixed_content == current_content: no write, FixResult(success=False)
NoChangesMade(entry) ==
    /\ AttemptFails(entry)
    /\ UNCHANGED <<repoFile, update_sha>>

\* update_file accepted by GitHub: FixResult(success=True, commit_sha=...)
UpdateAccepted(entry, content) ==
    /\ repoFile' = content
    /\ fixLog' = [fixLog EXCEPT ![Attempt] =
                     [entry EXCEPT !.returned = TRUE, !.success = TRUE]]
    /\ fixes_applied' = Append(fixes_applied, Attempt)
    /\ commits_made' = commits_made + 1
    /\ UNCHANGED fix_errors

\* update_file rejected by GitHub: it raises, _apply_single_fix catches the
\* exception and returns FixResult(success=False, error_message=str(e))
UpdateRejected(entry) ==
    /\ AttemptFails([entry EXCEPT !.rejected = TRUE])
    /\ UNCHANGED repoFile

\* update_file: GitHub accepts a write iff sha is the blob of the file
UpdateFile(entry, content, sha) ==
    /\ update_sha' = sha
    /\ IF sha = BlobSha(repoFile)
       THEN UpdateAccepted(entry, content)
       ELSE UpdateRejected(entry)

\* _apply_single_fix from the proposal of Gemini to the end of the loop body
ApplyProposedFix ==
    /\ fixPos = "generating"
    /\ \E old_code \in Snippets :
       \E new_code \in Snippets :
          LET current_content == file_content.content
              fixed_content == ApplyFixToContent(current_content, old_code, new_code)
              proposed == [fixLog[Attempt] EXCEPT !.proposed = TRUE,
                                                  !.identical = (old_code = new_code)]
          IN  IF fixed_content = current_content
              THEN NoChangesMade(proposed)
              ELSE UpdateFile([proposed EXCEPT !.wrote = TRUE], fixed_content,
                              WriteSha(file_content))
    /\ fixPos' = "loop"
    /\ UNCHANGED <<outsideFixAgent, fixable_issues, file_content, pushes>>

\* the loop over fixable_issues is over
FixLoopEnds ==
    /\ fixPos = "loop"
    /\ Len(fixLog) = fixable_issues
    /\ fixPos' = "done"
    /\ UNCHANGED <<outsideFixAgent, fixable_issues, repoFile, file_content, fixLog,
                   update_sha, fixes_applied, commits_made, fix_errors, pushes>>

FixAgentNext ==
    \/ FixLoopBegins
    \/ GetFileContent
    \/ GetFileContentFails
    \/ OtherPush
    \/ GenerateFixFails
    \/ ApplyProposedFix
    \/ FixLoopEnds

FixAgentSpec == Init /\ [][FixAgentNext]_vars

\* ---------------------------------------------------------- Analyze agent
\* A filename is the sequence of its parts between dots: <<"a", "py">> is
\* a.py, <<>> is the empty string.
Filenames == {<<"a", "py">>, <<"b", "js">>, <<"README", "md">>, <<"Makefile">>}

\* get_pr_diff: filename.split('.')[-1] if '.' in filename else ''
FileExtension(filename) ==
    IF Len(filename) > 1 THEN filename[Len(filename)] ELSE ""

\* get_pr_diff: the entry of changed_files for one file of the pull request
FileData(filename, status, is_binary) ==
    [filename |-> filename, status |-> status, is_binary |-> is_binary,
     file_extension |-> FileExtension(filename)]

\* the entries get_pr_diff can build
ChangedFiles ==
    {FileData(f, st, b) : f \in Filenames, st \in {"modified", "removed"}, b \in BOOLEAN}

\* _filter_code_files: code_extensions, written without the leading dot
CodeExtensions == {"py", "js", "ts", "java", "cpp", "c", "go", "rs", "php", "rb"}

\* _filter_code_files: the condition under which a file is kept
IsCodeFile(file) ==
    /\ file.file_extension \in CodeExtensions
    /\ ~file.is_binary
    /\ file.status \in {"added", "modified"}

\* _filter_code_files
FilterCodeFiles(changed_files) == SelectSeq(changed_files, IsCodeFile)

\* an item of the answer of the model carries no 'filename' key
NoKey == <<"<no key>">>

\* what the model can put into 'filename' of an item it reports: nothing,
\* the empty string, or a name of its own
ReportedFilenames == {NoKey, <<>>, <<"x", "py">>}

\* the items _analyze_single_file can return in one list
ReportedItems ==
    UNION {[1..k -> [filename : ReportedFilenames, file : {NoKey}]] :
              k \in 0..MaxIssuesPerFile}

\* analyze_pr_diff: "Add filename to each issue before merging", one item
AddFilename_BackupOnly(item, filename) == [item EXCEPT !.file = filename]

AddFilename(item, filename) == [item EXCEPT !.filename = filename, !.file = filename]

\* analyze_pr_diff: one list of file_analysis after the filename was added
WithFilename(items, filename) ==
    [k \in DOMAIN items |-> AddFilename(items[k], filename)]

\* analyze_pr_diff filters the files of the diff; without code files it returns
AnalyzeBegins ==
    /\ analyzePos = "idle"
    /\ \E n \in 1..MaxDiffFiles :
       \E files \in [1..n -> ChangedFiles] :
          /\ \A i \in 1..n : \A j \in 1..n :
                files[i].filename = files[j].filename => i = j
          /\ diff_files' = files
    /\ code_files' = FilterCodeFiles(diff_files')
    /\ analyzePos' = IF code_files' = <<>> THEN "done" ELSE "loop"
    /\ UNCHANGED <<outsideAnalyze, analyzeIdx, analysis>>

\* one round of the loop over code_files: _analyze_single_file returns its
\* lists, every item gets the filename of the file, the lists are merged
AnalyzeOneFile ==
    /\ analyzePos = "loop"
    /\ analyzeIdx < Len(code_files)
    /\ LET filename == code_files[analyzeIdx + 1].filename
       IN  \E vulnerabilities \in ReportedItems :
           \E security_issues \in ReportedItems :
           \E quality_issues \in ReportedItems :
              analysis' =
                 [analysis EXCEPT
                    !.vulnerabilities = @ \o WithFilename(vulnerabilities, filename),
                    !.security_issues = @ \o WithFilename(security_issues, filename),
                    !.quality_issues = @ \o WithFilename(quality_issues, filename)]
    /\ analyzeIdx' = analyzeIdx + 1
    /\ UNCHANGED <<outsideAnalyze, analyzePos, diff_files, code_files>>

\* an exception in the loop: the failed AnalysisResult with empty lists
AnalyzeLoopFails ==
    /\ analyzePos = "loop"
    /\ analysis' = [NoAnalysis EXCEPT !.success = FALSE]
    /\ analyzePos' = "done"
    /\ UNCHANGED <<outsideAnalyze, diff_files, code_files, analyzeIdx>>

\* the loop is over: analyze_pr_diff returns result
AnalyzeLoopEnds ==
    /\ analyzePos = "loop"
    /\ analyzeIdx = Len(code_files)
    /\ analyzePos' = "done"
    /\ UNCHANGED <<outsideAnalyze, diff_files, code_files, analyzeIdx, analysis>>

AnalyzeAgentNext ==
    \/ AnalyzeBegins
    \/ AnalyzeOneFile
    \/ AnalyzeLoopFails
    \/ AnalyzeLoopEnds

AnalyzeAgentSpec == Init /\ [][AnalyzeAgentNext]_vars

\* ------------------------------------------------------------ _parse_patch
\* A line of a patch is its text, a sequence of characters and words, and
\* what the regular expression of the hunk header finds in it.
\* re.search found no hunk header in the line
NoMatch == [old |-> 0 - 1, new |-> 0 - 1]

\* the lines that are no hunk headers
TextLines ==
    {[text |-> t, match |-> NoMatch] :
        t \in {<<" ", "x">>, <<"+", "x">>, <<"-", "x">>, <<"+", "+", "+">>,
               <<"-", "-", "-">>}}

\* the lines "@@ -a,b +c,d @@", and a line "@@" the expression does not match
HeaderLines ==
    {[text |-> <<"@", "@">>, match |-> m] :
        m \in {NoMatch} \cup [old : 1..MaxStart, new : 1..MaxStart]}

\* str.startswith
StartsWith(text, prefix) ==
    /\ Len(prefix) <= Len(text)
    /\ SubSeq(text, 1, Len(prefix)) = prefix

\* line[1:]
DropFirst(text) == SubSeq(text, 2, Len(text))

\* a line starting with '@@': the counters are set if the expression matches
HunkHeader(st, line) ==
    IF line.match # NoMatch
    THEN [st EXCEPT !.old_line_num = line.match.old, !.new_line_num = line.match.new]
    ELSE st

\* an added line: recorded with new_line_num, which advances
Addition_AdvancesBoth(st, line) ==
    [st EXCEPT !.added_lines = Append(@, [line_number |-> st.new_line_num,
                                           content |-> DropFirst(line.text)]),
               !.new_line_num = @ + 1,
               !.old_line_num = @ + 1]

Addition(st, line) ==
    [st EXCEPT !.added_lines = Append(@, [line_number |-> st.new_line_num,
                                           content |-> DropFirst(line.text)]),
               !.new_line_num = @ + 1]

\* a removed line: recorded with old_line_num, which advances
Deletion_KeepsOld(st, line) ==
    [st EXCEPT !.removed_lines = Append(@, [line_number |-> st.old_line_num,
                                             content |-> DropFirst(line.text)])]

Deletion(st, line) ==
    [st EXCEPT !.removed_lines = Append(@, [line_number |-> st.old_line_num,
                                             content |-> DropFirst(line.text)]),
               !.old_line_num = @ + 1]

\* any other line: recorded with both counters, which both advance
Context(st, line) ==
    [st EXCEPT !.context_lines =
                  Append(@, [old_line_number |-> st.old_line_num,
                             new_line_number |-> st.new_line_num,
                             content |-> IF StartsWith(line.text, <<" ">>)
                                         THEN DropFirst(line.text)
                                         ELSE line.text]),
               !.old_line_num = @ + 1,
               !.new_line_num = @ + 1]

\* the body of the loop of _parse_patch for one line
ParseStep(st, line) ==
    IF StartsWith(line.text, <<"@", "@">>)
    THEN HunkHeader(st, line)
    ELSE IF StartsWith(line.text, <<"+">>) /\ ~StartsWith(line.text, <<"+", "+", "+">>)
         THEN Addition(st, line)
         ELSE IF StartsWith(line.text, <<"-">>)
                 /\ ~StartsWith(line.text, <<"-", "-", "-">>)
              THEN Deletion(st, line)
              ELSE Context(st, line)

RECURSIVE ParseFrom(_, _, _)
\* the loop of _parse_patch from line i on
ParseFrom(st, hunks, i) ==
    IF i > Len(hunks) THEN st ELSE ParseFrom(ParseStep(st, hunks[i]), hunks, i + 1)

\* _parse_patch
ParsePatch(hunks) == ParseFrom(NothingParsed, hunks, 1)

\* _parse_patch is called with a patch that is not empty
ParseBegins ==
    /\ parsing = "idle"
    /\ \E n \in 1..MaxPatchLines :
       \E hunks \in [1..n -> TextLines \cup HeaderLines] : patch' = hunks
    /\ parsing' = "loop"
    /\ UNCHANGED <<outsidePatch, patchPos, parsed>>

\* one round of the loop
ParseLine ==
    /\ parsing = "loop"
    /\ patchPos < Len(patch)
    /\ parsed' = ParseStep(parsed, patch[patchPos + 1])
    /\ patchPos' = patchPos + 1
    /\ UNCHANGED <<outsidePatch, parsing, patch>>

\* the loop is over: the three lists are returned
ParseReturns ==
    /\ parsing = "loop"
    /\ patchPos = Len(patch)
    /\ parsing' = "returned"
    /\ UNCHANGED <<outsidePatch, patch, patchPos, parsed>>

PatchNext ==
    \/ ParseBegins
    \/ ParseLine
    \/ ParseReturns

PatchSpec == Init /\ [][PatchNext]_vars

\* ------------------------------------------------ aggregate_pipeline_results
\* what context.results holds for a stage: no entry, an entry without
\* 'success', or an entry whose 'success' is True or False
StoredResults == {"absent", "no success key", "True", "False"}

\* context.results.get(stage, {}).get('success', False)
SuccessFlag(stored) == stored = "True"

\* stages_success, in the order build, analyze, fix, test
StagesSuccess(stored) ==
    <<SuccessFlag(stored["build"]), SuccessFlag(stored["analyze"]),
      SuccessFlag(stored["fix"]), SuccessFlag(stored["test"])>>

\* sum(stages_success)
Sum(flags) == Cardinality({i \in DOMAIN flags : flags[i]})

\* the overall pipeline status: all(...), any(...), else
OverallStatus_AllOrFailed(flags) ==
    IF \A i \in DOMAIN flags : flags[i] THEN "success" ELSE "failed"

OverallStatus(flags) ==
    IF \A i \in DOMAIN flags : flags[i]
    THEN "success"
    ELSE IF \E i \in DOMAIN flags : flags[i]
         THEN "partial"
         ELSE "failed"

\* sum(stages_success) / len(stages_success) * 100: a multiple of 25, which
\* the float division gives exactly
SuccessRate(flags) == (Sum(flags) * 100) \div Len(flags)

\* a pipeline ends with some stage results stored in its context
PipelineStoresResults ==
    /\ complete_record = NoRecord
    /\ \E stored \in [Stages -> StoredResults] : context_results' = stored
    /\ UNCHANGED <<outsideAggregate, complete_record>>

\* aggregate_pipeline_results builds the comprehensive results record
AggregatePipelineResults ==
    /\ complete_record = NoRecord
    /\ complete_record' =
          [pipeline_status |-> OverallStatus(StagesSuccess(context_results)),
           success_rate |-> SuccessRate(StagesSuccess(context_results))]
    /\ UNCHANGED <<outsideAggregate, context_results>>

AggregateNext ==
    \/ PipelineStoresResults
    \/ AggregatePipelineResults

AggregateSpec == Init /\ [][AggregateNext]_vars

\* ------------------------------------------- the threads of a TerminalSession
Streams == {"stdout", "stderr"}

\* a terminal_output event that carries a queue entry
TerminalOutput(entry) == [type |-> "terminal_output", output |-> entry]

TerminalEnd == [type |-> "terminal_end", output |-> Completed]

\* start_process and start_terminal_session: the child process is started,
\* is_running is set, the capture threads and the monitor thread are
\* started, and the streaming task is created
StartProcess ==
    /\ process = "none"
    /\ process' = "running"
    /\ is_running' = TRUE
    /\ monitor' = "wait"
    /\ streaming' = "while"
    /\ UNCHANGED <<outsideSession, pipe, queues, sent, written>>

\* the child process writes a line to stdout or to stderr
ProcessWrites ==
    /\ process = "running"
    /\ written < MaxLines
    /\ written' = written + 1
    /\ \E stream \in Streams : pipe' = [pipe EXCEPT ![stream] = Append(@, written + 1)]
    /\ UNCHANGED <<outsideSession, process, queues, is_running, monitor, streaming, sent>>

\* the child process ends on its own; what it wrote stays in the pipes
ProcessEnds ==
    /\ process = "running"
    /\ process' = "exited"
    /\ UNCHANGED <<outsideSession, pipe, queues, is_running, monitor, streaming, sent,
                   written>>

\* _capture_output: the thread of a pipe reads a line and puts it on its queue
CaptureOutput ==
    \E stream \in Streams :
       /\ pipe[stream] # <<>>
       /\ pipe' = [pipe EXCEPT ![stream] = Tail(@)]
       /\ queues' = [queues EXCEPT ![stream] = Append(@, Head(pipe[stream]))]
       /\ UNCHANGED <<outsideSession, process, is_running, monitor, streaming, sent,
                      written>>

\* _monitor_process: process.wait() returns and is_running is cleared
MonitorWakes ==
    /\ monitor = "wait"
    /\ process = "exited"
    /\ is_running' = FALSE
    /\ monitor' = "put"
    /\ UNCHANGED <<outsideSession, process, pipe, queues, streaming, sent, written>>

\* _monitor_process: the completion message is put on the output queue
MonitorPuts ==
    /\ monitor = "put"
    /\ queues' = [queues EXCEPT !["stdout"] = Append(@, Completed)]
    /\ monitor' = "done"
    /\ UNCHANGED <<outsideSession, process, pipe, is_running, streaming, sent, written>>

\* while session.is_running or not output_queue.empty() or not
\* error_queue.empty(): the loop goes on, or ends with terminal_end
StreamWhile ==
    /\ streaming = "while"
    /\ IF is_running \/ queues["stdout"] # <<>> \/ queues["stderr"] # <<>>
       THEN /\ streaming' = "get_output"
            /\ sent' = sent
       ELSE /\ streaming' = "ended"
            /\ sent' = Append(sent, TerminalEnd)
    /\ UNCHANGED <<outsideSession, process, pipe, queues, is_running, monitor, written>>

\* session.get_output() and the terminal_output of what it returned
StreamOutput ==
    /\ streaming = "get_output"
    /\ streaming' = "get_error"
    /\ IF queues["stdout"] = <<>>
       THEN UNCHANGED <<queues, sent>>
       ELSE /\ queues' = [queues EXCEPT !["stdout"] = Tail(@)]
            /\ sent' = Append(sent, TerminalOutput(Head(queues["stdout"])))
    /\ UNCHANGED <<outsideSession, process, pipe, is_running, monitor, written>>

\* session.get_error(), the terminal_output of what it returned, and the sleep
StreamError ==
    /\ streaming = "get_error"
    /\ streaming' = "while"
    /\ IF queues["stderr"] = <<>>
       THEN UNCHANGED <<queues, sent>>
       ELSE /\ queues' = [queues EXCEPT !["stderr"] = Tail(@)]
            /\ sent' = Append(sent, TerminalOutput(Head(queues["stderr"])))
    /\ UNCHANGED <<outsideSession, process, pipe, is_running, monitor, written>>

SessionNext ==
    \/ StartProcess
    \/ ProcessWrites
    \/ ProcessEnds
    \/ CaptureOutput
    \/ MonitorWakes
    \/ MonitorPuts
    \/ StreamWhile
    \/ StreamOutput
    \/ StreamError

SessionSpec == Init /\ [][SessionNext]_vars

\* ---------------------------------------------------------- build_pr_branch
\* failure_metadata: the baseline metadata of a failed clone
FailureMetadata ==
    [project_type |-> "unknown", total_files |-> 0, supported_files |-> 0,
     total_functions |-> 0, total_classes |-> 0, unique_dependencies |-> 0]

\* a supported file of the clone: its extension, whether Python can parse
\* it, and the functions and classes analyze_python_file finds in it
WalkedFiles ==
    [ext : {".py", ".js"}, parses : BOOLEAN, functions : 0..MaxFunctions,
     classes : 0..MaxFunctions]

\* compile_and_validate: the entry of file_info for one file; a Python file
\* that does not parse gets its syntax error and no metadata
FileInfo(file) ==
    IF file.ext = ".py" /\ ~file.parses
    THEN [errors |-> {"Syntax Error"}, functions |-> 0, classes |-> 0]
    ELSE IF file.ext = ".py"
         THEN [errors |-> {}, functions |-> file.functions, classes |-> file.classes]
         ELSE [errors |-> {}, functions |-> 0, classes |-> 0]

RECURSIVE Total(_, _, _)
\* sum(... for info in result.file_info.values()) from entry i on
Total(infos, Field(_), i) ==
    IF i > Len(infos) THEN 0 ELSE Field(infos[i]) + Total(infos, Field, i + 1)

\* compile_and_validate: file_info and metadata; its own errors and success
CompileAndValidate(files) ==
    LET infos == [i \in DOMAIN files |-> FileInfo(files[i])]
    IN  [success |-> \A i \in DOMAIN infos : infos[i].errors = {},
         errors |-> UNION {infos[i].errors : i \in DOMAIN infos},
         file_info |-> infos,
         total_files |-> Len(files),
         supported_files |-> Len(files),
         total_functions |-> Total(infos, LAMBDA info : info.functions, 1),
         total_classes |-> Total(infos, LAMBDA info : info.classes, 1)]

\* build_pr_branch is called
BuildBegins ==
    /\ buildPos = "idle"
    /\ buildPos' = "clone"
    /\ UNCHANGED <<outsideBuildAgent, clone_outcome, steps_run, walked, built>>

\* clone_repository raises, the error is recorded and the steps go on
CloneRaised_Continues ==
    /\ buildPos = "clone"
    /\ clone_outcome' = "raised"
    /\ steps_run' = steps_run \cup {"clone"}
    /\ built' = [built EXCEPT !.errors = @ \cup {"Repository clone failed"}]
    /\ buildPos' = "detect"
    /\ UNCHANGED <<outsideBuildAgent, walked>>

\* clone_repository raises: BuildResult(False, failure_metadata, errors, ...)
CloneRaised ==
    /\ buildPos = "clone"
    /\ clone_outcome' = "raised"
    /\ steps_run' = steps_run \cup {"clone"}
    /\ built' = [built EXCEPT !.returned = TRUE, !.success = FALSE,
                              !.errors = @ \cup {"Repository clone failed"},
                              !.metadata = FailureMetadata]
    /\ buildPos' = "returned"
    /\ UNCHANGED <<outsideBuildAgent, walked>>

\* clone_repository returns the directory of the clone
CloneReturned ==
    /\ buildPos = "clone"
    /\ clone_outcome' = "ok"
    /\ steps_run' = steps_run \cup {"clone"}
    /\ buildPos' = "detect"
    /\ UNCHANGED <<outsideBuildAgent, walked, built>>

\* detect_project_type
DetectProjectType ==
    /\ buildPos = "detect"
    /\ \E kind \in ProjectKinds : built' = [built EXCEPT !.metadata.project_type = kind]
    /\ steps_run' = steps_run \cup {"detect"}
    /\ buildPos' = "install"
    /\ UNCHANGED <<outsideBuildAgent, clone_outcome, walked>>

\* install_dependencies: a failure or an exception is a warning
InstallStep ==
    /\ buildPos = "install"
    /\ \E outcome \in {"ok", "failed", "raised"} :
          built' = IF outcome = "ok"
                   THEN built
                   ELSE [built EXCEPT !.warnings = @ \cup {"dependency installation"}]
    /\ steps_run' = steps_run \cup {"install"}
    /\ buildPos' = "build"
    /\ UNCHANGED <<outsideBuildAgent, clone_outcome, walked>>

\* run_project_build: a failure or an exception is a warning
BuildStep ==
    /\ buildPos = "build"
    /\ \E outcome \in {"ok", "failed", "raised"} :
          built' = IF outcome = "ok"
                   THEN built
                   ELSE [built EXCEPT !.warnings = @ \cup {"build commands"}]
    /\ steps_run' = steps_run \cup {"build"}
    /\ buildPos' = "files"
    /\ UNCHANGED <<outsideBuildAgent, clone_outcome, walked>>

\* success = len(errors) == 0 and the return of build_pr_branch
Returned(result) ==
    [result EXCEPT !.returned = TRUE, !.success = (result.errors = {})]

\* process_files walks the clone and returns file_info and the totals of
\* compile_and_validate, which go into metadata
ProcessedFiles ==
    /\ buildPos = "files"
    /\ \E n \in 0..MaxWalked :
       \E files \in [1..n -> WalkedFiles] : walked' = files
    /\ LET processed == CompileAndValidate(walked')
       IN  built' = Returned([built EXCEPT
                        !.file_info = processed.file_info,
                        !.metadata.total_files = processed.total_files,
                        !.metadata.supported_files = processed.supported_files,
                        !.metadata.total_functions = processed.total_functions,
                        !.metadata.total_classes = processed.total_classes])
    /\ steps_run' = steps_run \cup {"files"}
    /\ buildPos' = "returned"
    /\ UNCHANGED <<outsideBuildAgent, clone_outcome>>

\* process_files raises: "File analysis failed" is an error
ProcessFilesRaised ==
    /\ buildPos = "files"
    /\ built' = Returned([built EXCEPT !.errors = @ \cup {"File analysis failed"}])
    /\ steps_run' = steps_run \cup {"files"}
    /\ buildPos' = "returned"
    /\ UNCHANGED <<outsideBuildAgent, clone_outcome, walked>>

BuildAgentNext ==
    \/ BuildBegins
    \/ CloneRaised
    \/ CloneReturned
    \/ DetectProjectType
    \/ InstallStep
    \/ BuildStep
    \/ ProcessedFiles
    \/ ProcessFilesRaised

BuildAgentSpec == Init /\ [][BuildAgentNext]_vars

\* ------------------------------------------------------------ observations
\* positions in observed of the events of a type and stage
EventsOf(type, stg) ==
    {i \in DOMAIN observed : observed[i].type = type /\ observed[i].stage = stg}

Published(type, stg) == EventsOf(type, stg) # {}

PipelineCompletes == {i \in DOMAIN observed : observed[i].type = "pipeline_complete"}

Recorded(text) == \E i \in DOMAIN errors : errors[i] = text

\* the pipeline task has ended
Terminal == pc = "done"

\* _execute_pipeline is past the point where stage 4 runs or is skipped
PastTestStage == pc \in {"complete", "post_results", "cleanup", "done"}

BuildReturnedFalse == results.build.present /\ ~results.build.success

\* analyze_pr_diff returned success = False (no exception reached the stage)
AnalyzeReturnedFalse ==
    /\ results.analyze.present
    /\ ~results.analyze.success
    /\ ~Recorded("Analysis failed")

AnalyzeSucceeded == results.analyze.present /\ results.analyze.success

\* apply_fixes returned a result to _run_fix_stage
FixAgentReturned == results.fix.present /\ ~Recorded("Fix failed")

StageOrder == <<"none", "pending", "build", "analyze", "fix", "test", "complete">>

StageRank(s) == CHOOSE i \in DOMAIN StageOrder : StageOrder[i] = s

\* ------------------------------------------------------------------ claims
\* C1: the stage only moves forward along pending, build, analyze, fix,
\* test, complete, and once it is failed it never takes another value
C1_StageOnlyMovesForward ==
    [][/\ (stage = "failed" => stage' = "failed")
       /\ (stage # "failed" /\ stage' # "failed"
              => StageRank(stage') >= StageRank(stage))]_vars

\* C2: when the Build agent or the Analyze agent returned success = False,
\* the stage becomes failed and every pipeline_complete of the pipeline has
\* status "failed"
C2_FailedAgentFailsPipeline ==
    (BuildReturnedFalse \/ AnalyzeReturnedFalse)
        => /\ stage = "failed"
           /\ \A i \in PipelineCompletes : observed[i].status = "failed"

\* C3: after Build returned success = False no stage_start of analyze, fix
\* or test is published; after Analyze returned success = False no
\* stage_start of fix or test is published
C3_NoStageStartAfterFailure ==
    /\ BuildReturnedFalse
          => \A s \in {"analyze", "fix", "test"} : ~Published("stage_start", s)
    /\ AnalyzeReturnedFalse
          => \A s \in {"fix", "test"} : ~Published("stage_start", s)

\* C3 witness: a finished pipeline whose Analyze agent returned success = False
C3_Witness == Terminal /\ AnalyzeReturnedFalse /\ Published("stage_start", "analyze")

\* C4 as stated: once the Fix stage was entered, whatever its outcome (an
\* exception raised while it runs included), the Test stage is executed
\* afterwards and the pipeline reaches complete
C4_TestFollowsEveryFixOutcome ==
    (results.fix.present /\ Terminal)
        => /\ Published("stage_start", "test")
           /\ results.test.present
           /\ stage = "complete"

\* C4 amended: once the Fix agent has returned a result, with fixes
\* applied, with none, with per-fix errors or with success = False after an
\* error it caught, the Test stage is executed afterwards and the pipeline
\* reaches complete; after an exception that reaches _run_fix_stage the
\* Test stage is not started
C4_TestFollowsFixResult ==
    /\ (FixAgentReturned /\ PastTestStage)
          => /\ Published("stage_start", "test")
             /\ results.test.present
             /\ (pc # "complete" => stage = "complete")
    /\ Recorded("Fix failed") => ~Published("stage_start", "test")

\* C4 witness: a finished pipeline whose Fix agent returned success = False
C4_Witness ==
    /\ Terminal
    /\ FixAgentReturned
    /\ ~results.fix.success
    /\ Published("stage_complete", "test")

\* C5: when Analyze succeeded with total_issues = 0 the Fix agent is never
\* invoked (no event of the fix stage, no write_file), the Test stage still
\* runs and the fix status of the summary of pipeline_complete is "skipped";
\* when it succeeded with total_issues > 0 the Fix stage is run before Test
C5_FixOnlyWithIssues ==
    /\ (AnalyzeSucceeded /\ results.analyze.total_issues = 0)
          => /\ \A i \in DOMAIN observed : observed[i].stage # "fix"
             /\ progressSeen["fix"] = NothingSeen
             /\ writes = 0
             /\ ~results.fix.present
             /\ pc # "fix_call" /\ pc # "fix_issue"
             /\ (PastTestStage => Published("stage_start", "test"))
             /\ \A i \in PipelineCompletes : observed[i].summary.fix = "skipped"
             /\ (Terminal => PipelineCompletes # {})
    /\ (AnalyzeSucceeded /\ results.analyze.total_issues > 0)
          => /\ (pc = "test_gate" \/ stage = "test" \/ PastTestStage
                    => results.fix.present)
             /\ \A j \in EventsOf("stage_start", "test") :
                   \E i \in EventsOf("stage_start", "fix") : i < j

\* C5 witness: a finished pipeline whose analysis found nothing and whose
\* Test stage ran
C5_Witness ==
    /\ Terminal
    /\ AnalyzeSucceeded
    /\ results.analyze.total_issues = 0
    /\ Published("stage_complete", "test")

\* an exception was raised while a stage ran: it left the Build agent,
\* reached the except branch of _run_analyze_stage or of _run_fix_stage, or
\* the Test stage stored a failure
StageRaised ==
    \/ Recorded("exception")
    \/ Recorded("Analysis failed")
    \/ Recorded("Fix failed")
    \/ (results.test.present /\ ~results.test.success)

\* C6: after an exception that escaped a stage the pipeline ends with stage
\* failed, the exception text in errors, and an error event published
\* before its pipeline_complete, which has status "failed"
C6_ExceptionFailsPipeline ==
    (Terminal /\ StageRaised)
        => /\ stage = "failed"
           /\ errors # <<>>
           /\ \A j \in PipelineCompletes :
                 /\ observed[j].status = "failed"
                 /\ \E i \in DOMAIN observed : i < j /\ observed[i].type = "error"

\* C7: when the pipeline has ended the subscriber has, for each executed
\* stage, exactly one stage_start and exactly one stage_complete, the
\* stage_start first
C7_OneStartOneCompletePerStage ==
    Terminal =>
        \A s \in Stages :
            results[s].present
                => /\ Cardinality(EventsOf("stage_start", s)) = 1
                   /\ Cardinality(EventsOf("stage_complete", s)) = 1
                   /\ \A i \in EventsOf("stage_start", s) :
                         \A j \in EventsOf("stage_complete", s) : i < j

\* C8: the subscriber observes the events in publish order: no
\* status_update the Build agent issued is still undelivered when the
\* subscriber has the stage_complete of build
C8_BuildUpdatesBeforeStageComplete ==
    Published("stage_complete", "build")
        => \A i \in DOMAIN pending : pending[i].stage # "build"

\* C9: within each stage the non-null progress values of the status_updates
\* the subscriber received never decrease and lie in 0..100
C9_ProgressMonotone ==
    \A s \in Stages : ~progressSeen[s].dropped /\ ~progressSeen[s].outside

\* C10: a pipeline that has ended published exactly one pipeline_complete
\* and exactly one pipeline_results_complete, the pipeline_complete first
C10_OneCompleteThenResults ==
    Terminal =>
        /\ Cardinality(PipelineCompletes) = 1
        /\ Cardinality({i \in DOMAIN observed :
                           observed[i].type = "pipeline_results_complete"}) = 1
        /\ \A i \in PipelineCompletes :
              \A j \in DOMAIN observed :
                 observed[j].type = "pipeline_results_complete" => i < j

\* the pipeline was created by start_pipeline
Started == pc \notin {"idle", "rejected"}

\* C11: a pipeline that has ended is no longer in the active set, and it
\* leaves the active set only after its pipeline_complete was published
C11_TerminatedPipelineRemoved ==
    /\ (Terminal => ~active)
    /\ ((Started /\ ~active) => PipelineCompletes # {})

\* C20: after a failed comment post the terminal stage still agrees with the
\* published pipeline_complete (complete with "success", failed with
\* "failed"), and the ended pipeline is removed from the active set
C20_CommentFailureIsWarning ==
    (comment = "failed" /\ pc \in {"cleanup", "done"})
        => /\ Cardinality(PipelineCompletes) = 1
           /\ \A i \in PipelineCompletes :
                 \/ stage = "complete" /\ observed[i].status = "success"
                 \/ stage = "failed" /\ observed[i].status = "failed"
           /\ (Terminal => ~active)

\* C13: a send_message call during which a subscriber disconnected left no
\* subscriber without the event: every socket that was subscribed and open
\* from the start of a loop to its end was sent the event
C13_DisconnectLosesNoEvent ==
    lastPub.disturbed => lastPub.missed = {}

\* C14: every message a socket received was published to the topic of the
\* socket or reached it through "all_pipelines" with the pipeline_id
\* injected, and the last send_message call missed none of the subscribers
\* of its two topics
C14_PublishRouting ==
    /\ \A s \in Sockets :
          \A m \in inbox[s] :
             IF sockTopic[s] = AllPipelines
             THEN m.pipeline_id = m.published_to
             ELSE m.published_to = sockTopic[s] /\ m.pipeline_id = "none"
    /\ lastPub.missed = {}

\* C15: a send_message call in which a send failed still delivered the event
\* to all other subscribers, and a socket evicted by a finished call is in no
\* list and is not sent to again
C15_FailedSendIsolated ==
    /\ (lastPub.failed # {} => lastPub.missed = {})
    /\ \A s \in evicted :
          /\ \A t \in DOMAIN connections : s \notin Members(connections[t])
          /\ (sending.phase # "idle" => sending.target # s)

\* C16: a pipeline topic all of whose subscribers have been disconnected is
\* not in the connection stats
C16_EmptyTopicDropped ==
    \A t \in PipelineIds :
       t \in DOMAIN get_connection_stats
          => \E s \in Sockets : sockTopic[s] = t /\ sockState[s] \in {"open", "closed"}

\* the task of a pipeline has not ended
Unfinished(r) == runs[r].pc \in {"scheduled", "running"}

\* C12: every pipeline whose task has not ended has its own record in the
\* active set under the id start_pipeline returned for it, and no two tasks
\* work on the same context
C12_OwnRecordPerPipeline ==
    /\ \A r \in DOMAIN runs :
          Unfinished(r)
             => /\ runs[r].key \in DOMAIN active_pipelines
                /\ active_pipelines[runs[r].key] = r
    /\ \A r1, r2 \in DOMAIN runs :
          (r1 # r2 /\ runs[r1].pc = "running" /\ runs[r2].pc = "running")
             => runs[r1].ctx # runs[r2].ctx

\* a commit message that contains one of the markers
HasMarker(message) == Members(message) \cap ai_markers # {}

\* a synchronize payload of a pull request whose head commit has a marker
MarkedSynchronize(req) ==
    /\ req.endpoint = "webhook"
    /\ req.pull_request
    /\ req.action = "synchronize"
    /\ req.sha
    /\ HasMarker(req.message)

C18_FixCommitsCarryMarker ==
    \A m \in commits :
       /\ \E summary \in Summaries :
             m = <<"<robot> AI Fix:">> \o summary \o <<"[skip-pipeline]">>
       /\ HasMarker(m)

\* the Fix agent committed a fix whose summary has no marker, and one whose
\* summary is empty
C18_Witness ==
    /\ <<"<robot> AI Fix:", "text", "[skip-pipeline]">> \in commits
    /\ <<"<robot> AI Fix:", "[skip-pipeline]">> \in commits

\* a pull-request payload with action opened, or synchronize without marker
Admissible(req) ==
    /\ req.endpoint = "webhook"
    /\ req.pull_request
    /\ \/ req.action = "opened"
       \/ req.action = "synchronize" /\ ~HasMarker(req.message)

\* C19: an admissible payload is answered 200 with pipeline_status
\* "starting" and the id of a pipeline whose pipeline_start was published
C19_AdmittedEventStartsPipeline ==
    Admissible(lastReq)
        => /\ response.status = 200
           /\ response.pipeline_status = "starting"
           /\ response.pipeline_id \in starts

\* C21: about every terminal session exactly one terminal_start and at most
\* one terminal_end was published
C21_OneStartAtMostOneEnd ==
    \A i \in DOMAIN termLog :
       termLog[i].terminal_start = 1 /\ termLog[i].terminal_end <= 1

\* a streaming task or a suspended start_terminal_session can still act
StreamingPossible ==
    \/ startCall # 0
    \/ \E k \in DOMAIN tasks : tasks[k].pc \in {"created", "loop"}

\* C22: a session that terminate_session has terminated gets its
\* terminal_terminating and, once no streaming task is left to act, has got
\* its terminal_end
C22_TerminatedSessionEnds ==
    \A i \in DOMAIN termLog :
       termLog[i].terminated
          => /\ termLog[i].terminal_terminating >= 1
             /\ (StreamingPossible \/ termLog[i].terminal_end >= 1)

\* C23: the terminal_output events of a session are published in the order
\* in which the child process wrote the lines
C23_OutputInProducedOrder ==
    \A i \in DOMAIN termLog :
       \A a, b \in DOMAIN termLog[i].terminal_output :
          a < b => termLog[i].terminal_output[a] < termLog[i].terminal_output[b]

\* a terminal socket that is connected or whose endpoint has yet to run
\* disconnect
Attached(socks) == {k \in TermSockets : socks[k] \in {"open", "closed"}}

\* C24: a disconnect that leaves the session id without any subscriber
\* removes the session, and the child process has been sent the termination
\* signal unless it had ended
C24_LastDisconnectTerminates ==
    [][(Attached(termSockState') # Attached(termSockState)
           /\ Attached(termSockState') = {})
          => /\ termSession' = 0
             /\ \A i \in DOMAIN sess' : sess'[i].signalled \/ sess'[i].exited
                                        \/ ~sess'[i].is_running]_vars

\* C25: after discovery every returned function lies within the file, and a
\* function definition of the file, def or async def, is returned exactly
\* when one of the changed lines that lie within the file falls in its span;
\* a file without such a line yields nothing
C25_DiscoveryByIntersection ==
    testPhase = "discovered"
       => LET L == {l \in source_file.added_lines : 1 <= l /\ l <= source_file.lines}
          IN /\ \A j \in DOMAIN changed_functions :
                   /\ 1 <= changed_functions[j].start_line
                   /\ changed_functions[j].start_line <= changed_functions[j].end_line
                   /\ changed_functions[j].end_line <= source_file.lines
             /\ \A i \in DOMAIN source_file.defs :
                   (\E j \in DOMAIN changed_functions :
                       /\ changed_functions[j].function_name = source_file.defs[i].name
                       /\ changed_functions[j].start_line = source_file.defs[i].start_line
                       /\ changed_functions[j].end_line = source_file.defs[i].end_line)
                   <=> (L \cap (source_file.defs[i].start_line
                                  ..source_file.defs[i].end_line) # {})

\* C26: every question refers to a discovered function that has the returned
\* filename and function name, and no two questions refer to one function
C26_QuestionsOneToOne ==
    /\ \A q \in DOMAIN function_questions :
          /\ function_questions[q].function \in DOMAIN changed_functions
          /\ changed_functions[function_questions[q].function].filename
                = function_questions[q].filename
          /\ changed_functions[function_questions[q].function].function_name
                = function_questions[q].function_name
    /\ \A q1, q2 \in DOMAIN function_questions :
          q1 # q2 => function_questions[q1].function # function_questions[q2].function

\* the positions of the events of a type about a question
TestEventsOf(type, q) ==
    {i \in DOMAIN testEvents : testEvents[i].type = type /\ testEvents[i].question = q}

\* C27: when phase 2 has returned, every question was requested at most
\* once and has its test_generation_start followed by test_generated, or its
\* test_generation_failed; the events come in the order of the questions and
\* the generated tests are the successes in that order
C27_Phase2InOrder ==
    testPhase = "returned"
       => /\ \A q \in DOMAIN function_questions :
                /\ requests[q] <= 1
                /\ \/ \E i \in TestEventsOf("test_generation_start", q) :
                         \E j \in TestEventsOf("test_generated", q) : i < j
                   \/ TestEventsOf("test_generation_failed", q) # {}
          /\ \A i, j \in DOMAIN testEvents :
                i < j => testEvents[i].question <= testEvents[j].question
          /\ generated_tests =
                SelectSeq([q \in DOMAIN function_questions |-> q],
                          LAMBDA q : TestEventsOf("test_generated", q) # {})

\* Claim C28: applying a fix proposal whose old_code and new_code are
\* identical is a no-op: the file content is left unchanged, update_file is
\* not called and the attempt is not counted in fixes_applied.
C28_IdenticalProposalIsNoOp ==
    /\ \A code \in Snippets :
          repoFile # NoContent => ApplyFixToContent(repoFile, code, code) = repoFile
    /\ \A k \in DOMAIN fixLog :
          fixLog[k].identical =>
              /\ ~fixLog[k].wrote
              /\ ~fixLog[k].success
              /\ k \notin {fixes_applied[i] : i \in DOMAIN fixes_applied}

\* the attempts recorded in a list of the fix loop
AttemptsIn(list) == {list[i] : i \in DOMAIN list}

\* Claim C29: the sha given to update_file is the one the get_file_content
\* of the same attempt returned; an attempt whose write GitHub rejected as
\* stale has returned without success and is recorded in errors, not in
\* fixes_applied; and when the loop is over every fixable issue was
\* attempted and is in exactly one of fixes_applied and errors.
C29_StaleWriteSkipsOnlyThatFix ==
    /\ (fixLog # <<>> /\ fixLog[Attempt].wrote) => update_sha = file_content.sha
    /\ \A k \in DOMAIN fixLog :
          fixLog[k].rejected =>
              /\ pushes > 0
              /\ fixLog[k].returned
              /\ ~fixLog[k].success
              /\ k \in AttemptsIn(fix_errors)
              /\ k \notin AttemptsIn(fixes_applied)
    /\ fixPos = "done" =>
          /\ Len(fixLog) = fixable_issues
          /\ \A k \in DOMAIN fixLog :
                /\ fixLog[k].returned
                /\ (k \in AttemptsIn(fixes_applied)) # (k \in AttemptsIn(fix_errors))

\* the loop is over, a write was rejected as stale and a later fix was applied
C29_Witness ==
    /\ fixPos = "done"
    /\ \E j \in DOMAIN fixLog :
       \E k \in DOMAIN fixLog :
          j < k /\ fixLog[j].rejected /\ fixLog[k].success

\* the items of the three issue lists of the AnalysisResult
ReturnedItems ==
    {analysis.vulnerabilities[i] : i \in DOMAIN analysis.vulnerabilities}
    \cup {analysis.security_issues[i] : i \in DOMAIN analysis.security_issues}
    \cup {analysis.quality_issues[i] : i \in DOMAIN analysis.quality_issues}

\* Claim C30: every item in vulnerabilities, security_issues and
\* quality_issues of the AnalysisResult has a filename that is not empty and
\* is the filename of one of the files of the diff given to the agent.
C30_ItemsCarryInputFilename ==
    \A item \in ReturnedItems :
        /\ item.filename # <<>>
        /\ \E i \in DOMAIN diff_files : diff_files[i].filename = item.filename

\* analyze_pr_diff has returned items of two analysed files in all three lists
C30_Witness ==
    /\ analyzePos = "done"
    /\ analysis.success
    /\ analysis.vulnerabilities # <<>>
    /\ analysis.security_issues # <<>>
    /\ analysis.quality_issues # <<>>
    /\ Cardinality({item.filename : item \in ReturnedItems}) = 2

\* line k of the patch is a hunk header whose numbers were read
ResetsAt(k) == StartsWith(patch[k].text, <<"@", "@">>) /\ patch[k].match # NoMatch

\* line k starts with '+' and not with '+++'
AddedAt(k) ==
    StartsWith(patch[k].text, <<"+">>) /\ ~StartsWith(patch[k].text, <<"+", "+", "+">>)

\* line k starts with '-' and not with '---'
RemovedAt(k) ==
    StartsWith(patch[k].text, <<"-">>) /\ ~StartsWith(patch[k].text, <<"-", "-", "-">>)

\* line k is neither a hunk header nor added nor removed
ContextAt(k) ==
    ~StartsWith(patch[k].text, <<"@", "@">>) /\ ~AddedAt(k) /\ ~RemovedAt(k)

\* the last hunk header before line k whose numbers were read, 0: none
HunkOf(k) ==
    LET before == {j \in 1..(k - 1) : ResetsAt(j)}
    IN  IF before = {} THEN 0 ELSE CHOOSE j \in before : \A i \in before : i <= j

\* the old line number line k stands at: the a of its hunk header plus the
\* removed and context lines between the header and line k
OldAt(k) ==
    (IF HunkOf(k) = 0 THEN 0 ELSE patch[HunkOf(k)].match.old)
    + Cardinality({j \in (HunkOf(k) + 1)..(k - 1) : RemovedAt(j) \/ ContextAt(j)})

\* the new line number line k stands at: the c of its hunk header plus the
\* added and context lines between the header and line k
NewAt(k) ==
    (IF HunkOf(k) = 0 THEN 0 ELSE patch[HunkOf(k)].match.new)
    + Cardinality({j \in (HunkOf(k) + 1)..(k - 1) : AddedAt(j) \/ ContextAt(j)})

\* the consumed lines of the patch that satisfy Class, in order
Consumed(Class(_)) == SelectSeq([k \in 1..patchPos |-> k], Class)

\* the patch of the example: @@ -10,2 +10,3 @@, ' ctx', '-old', '+new1', '+new2'
ExamplePatch ==
    <<[text |-> <<"@", "@">>, match |-> [old |-> 10, new |-> 10]],
      [text |-> <<" ", "ctx">>, match |-> NoMatch],
      [text |-> <<"-", "old">>, match |-> NoMatch],
      [text |-> <<"+", "new1">>, match |-> NoMatch],
      [text |-> <<"+", "new2">>, match |-> NoMatch]>>

\* Claim C31: a hunk header resets the old counter to a and the new counter
\* to c; the lines starting with '+' (not '+++') are the added_lines, each
\* with the new line number it stands at, the lines starting with '-' (not
\* '---') are the removed_lines, each with its old line number, every other
\* line is in context_lines with both numbers; and the example patch yields
\* added (11, new1), (12, new2), removed (11, old), context (10, 10, ctx).
C31_PatchLinesNumbered ==
    /\ LET at == Consumed(AddedAt)
       IN  parsed.added_lines =
              [i \in DOMAIN at |-> [line_number |-> NewAt(at[i]),
                                    content |-> DropFirst(patch[at[i]].text)]]
    /\ LET at == Consumed(RemovedAt)
       IN  parsed.removed_lines =
              [i \in DOMAIN at |-> [line_number |-> OldAt(at[i]),
                                    content |-> DropFirst(patch[at[i]].text)]]
    /\ LET at == Consumed(ContextAt)
       IN  /\ Len(parsed.context_lines) = Len(at)
           /\ \A i \in DOMAIN at :
                 /\ parsed.context_lines[i].old_line_number = OldAt(at[i])
                 /\ parsed.context_lines[i].new_line_number = NewAt(at[i])
    /\ ParsePatch(ExamplePatch).added_lines =
          <<[line_number |-> 11, content |-> <<"new1">>],
            [line_number |-> 12, content |-> <<"new2">>]>>
    /\ ParsePatch(ExamplePatch).removed_lines =
          <<[line_number |-> 11, content |-> <<"old">>]>>
    /\ ParsePatch(ExamplePatch).context_lines =
          <<[old_line_number |-> 10, new_line_number |-> 10, content |-> <<"ctx">>]>>

\* a parsed patch with a hunk header followed by a context line, a removed
\* line and an added line
C31_Witness ==
    /\ parsing = "returned"
    /\ Len(patch) = 4
    /\ ResetsAt(1)
    /\ ContextAt(2)
    /\ RemovedAt(3)
    /\ AddedAt(4)
    /\ parsed.added_lines # <<>>

\* how many of the lines 1..k of the patch satisfy Class
Rank(k, Class(_)) == Cardinality({j \in 1..k : Class(j)})

\* the old line number recorded for line k, a removed or a context line
OldNumber(k) ==
    IF RemovedAt(k)
    THEN parsed.removed_lines[Rank(k, RemovedAt)].line_number
    ELSE parsed.context_lines[Rank(k, ContextAt)].old_line_number

\* the new line number recorded for line k, an added or a context line
NewNumber(k) ==
    IF AddedAt(k)
    THEN parsed.added_lines[Rank(k, AddedAt)].line_number
    ELSE parsed.context_lines[Rank(k, ContextAt)].new_line_number

\* the consumed lines of the hunks that are on the old side, on the new side
OldSide == {k \in 1..patchPos : HunkOf(k) # 0 /\ (RemovedAt(k) \/ ContextAt(k))}

NewSide == {k \in 1..patchPos : HunkOf(k) # 0 /\ (AddedAt(k) \/ ContextAt(k))}

\* the lines of Side before line k in the hunk of line k
Earlier(k, Side) == {j \in Side : j < k /\ HunkOf(j) = HunkOf(k)}

Last(S) == CHOOSE j \in S : \A i \in S : i <= j

\* the context lines consumed so far that lie in a hunk
HunkContext == {k \in 1..patchPos : HunkOf(k) # 0 /\ ContextAt(k)}

\* Claim C32 as stated: within every hunk the old line numbers of the
\* context lines, and their new line numbers, count up by one from one
\* context line to the next.
C32_ContextContiguous ==
    \A k \in HunkContext :
        Earlier(k, HunkContext) # {} =>
            /\ OldNumber(k) = OldNumber(Last(Earlier(k, HunkContext))) + 1
            /\ NewNumber(k) = NewNumber(Last(Earlier(k, HunkContext))) + 1

\* Claim C32, amended: within every hunk the old and the new line numbers of
\* the context lines are strictly increasing; the old numbers are contiguous
\* from a when taken together with the removed lines, the new numbers are
\* contiguous from c when taken together with the added lines.
C32_SidesContiguous ==
    /\ \A k \in HunkContext :
       \A j \in Earlier(k, HunkContext) :
          OldNumber(j) < OldNumber(k) /\ NewNumber(j) < NewNumber(k)
    /\ \A k \in OldSide :
          OldNumber(k) = IF Earlier(k, OldSide) = {}
                         THEN patch[HunkOf(k)].match.old
                         ELSE OldNumber(Last(Earlier(k, OldSide))) + 1
    /\ \A k \in NewSide :
          NewNumber(k) = IF Earlier(k, NewSide) = {}
                         THEN patch[HunkOf(k)].match.new
                         ELSE NewNumber(Last(Earlier(k, NewSide))) + 1

\* a parsed hunk with a removed line between two context lines
C32_Witness ==
    /\ parsing = "returned"
    /\ Len(patch) = 4
    /\ ResetsAt(1)
    /\ ContextAt(2)
    /\ RemovedAt(3)
    /\ ContextAt(4)
    /\ Len(parsed.context_lines) = 2

\* the stages whose stored result has 'success' True
PassedStages == {s \in Stages : context_results[s] = "True"}

\* Claim C33: in the comprehensive results record pipeline_status is success
\* iff all four stage success flags are true, failed iff none is true and
\* partial otherwise, and success_rate is (number of true flags / 4) * 100.
C33_StatusFromFlags ==
    complete_record # NoRecord =>
        /\ complete_record.pipeline_status = "success" <=> PassedStages = Stages
        /\ complete_record.pipeline_status = "failed" <=> PassedStages = {}
        /\ complete_record.pipeline_status = "partial" <=>
              (PassedStages # {} /\ PassedStages # Stages)
        /\ complete_record.success_rate = Cardinality(PassedStages) * 25

\* a record was built for a pipeline with some stages passed and some not
C33_Witness ==
    /\ complete_record # NoRecord
    /\ complete_record.pipeline_status = "partial"
    /\ complete_record.success_rate = 75

\* Claim C34: when the clone step fails the Build agent returns a
\* BuildResult with success false and the baseline metadata (project_type
\* unknown, all counters zero), and no later step is run.
C34_CloneFailureIsFatal ==
    clone_outcome = "raised" =>
        /\ built.returned
        /\ ~built.success
        /\ built.metadata = FailureMetadata
        /\ steps_run = {"clone"}

\* build_pr_branch has returned after clone_repository raised
C34_Witness ==
    /\ buildPos = "returned"
    /\ clone_outcome = "raised"
    /\ "Repository clone failed" \in built.errors

\* Claim C35: when a walked .py file fails to parse, the failure is recorded
\* as an error of that file and the BuildResult returned has success false.
C35_ParseFailureFailsBuild ==
    \A i \in DOMAIN walked :
        (built.returned /\ walked[i].ext = ".py" /\ ~walked[i].parses) =>
            /\ built.file_info[i].errors # {}
            /\ ~built.success

\* Claim C36: a POST to /agents/trigger whose body lacks pr_number or
\* repo_name is answered with status 400 and starts no pipeline.
C36_IncompleteTriggerIs400 ==
    [][(served' # served /\ lastReq'.endpoint = "trigger" /\ Incomplete(lastReq'))
          => /\ response'.status = 400
             /\ runs' = runs
             /\ active_pipelines' = active_pipelines
             /\ starts' = starts]_vars

\* Claim C37: all events of a pipeline (pipeline_start, the stage events,
\* pipeline_complete) are published on one topic, the pipeline id that
\* start_pipeline returned and used as key in the active set, however much
\* time passes while the pipeline is started.
C37_OneTopicPerPipeline ==
    \A r \in DOMAIN runs : runs[r].topics = {runs[r].key}

\* Claim C38: for a session whose process ends on its own, terminal_end
\* is the last event: every line the process wrote to stdout or stderr was
\* published as terminal_output before it and nothing is published after
\* it, whatever the interleaving of the capture threads, the monitor thread
\* and the streaming task.
C38_EndAfterEveryLine ==
    \A k \in DOMAIN sent :
        sent[k] = TerminalEnd =>
            /\ k = Len(sent)
            /\ \A n \in 1..written : \E j \in 1..(k - 1) : sent[j] = TerminalOutput(n)

\* Claim C39: the tests_passed the orchestrator stores for the test stage,
\* and reports in stage_complete and pipeline_complete, is the number of
\* executed test files whose status is PASSED, so it is smaller than
\* tests_executed when a file failed or errored.
C39_PassedCountsPassedFiles ==
    [][(pc = "test_execute" /\ pc' = "complete")
          => results'.test.tests_passed = nPassed]_vars

\* the statuses of the stage_complete events received about a stage
CompleteStatuses(stg) ==
    {observed[i].status : i \in {j \in DOMAIN observed :
        observed[j].type = "stage_complete" /\ observed[j].stage = stg}}

\* a stage_start or a stage_complete of the stage was received
Executed(stg) ==
    \E i \in DOMAIN observed :
       observed[i].type \in {"stage_start", "stage_complete"} /\ observed[i].stage = stg

\* Claim C40: for every stage the status in the summary of pipeline_complete
\* agrees with the stage's stage_complete: a stage that was executed is
\* never summarised as "skipped", and a stage whose stage_complete carried
\* "failed", "skipped" or "warning" is never summarised as "success".
C40_SummaryAgreesWithStages ==
    \A i \in PipelineCompletes : \A stg \in Stages :
        /\ Executed(stg) => observed[i].summary[stg] # "skipped"
        /\ CompleteStatuses(stg) \cap {"failed", "skipped", "warning"} # {}
              => observed[i].summary[stg] # "success"

====
